---- MODULE Spec2Model ----
(***************************************************************************)
(* Quickboard: the history manager (hooks/useHistory.ts), the geometry     *)
(* kernel (utils/geometry.ts) and the interaction controller               *)
(* (components/Blackboard.tsx) as one state machine.                       *)
(*                                                                         *)
(* Numbers.  Coordinates are JavaScript numbers; touch events and the      *)
(* canvas offset give them fractions of a pixel.  The model counts every   *)
(* coordinate in units of 1/Sub pixel, Px(n) being n pixels.  A centre of  *)
(* a bounding box is x + width/2, so every value that involves a centre is *)
(* kept in half units (twice the coordinate).  Rotations are kept          *)
(* in quarter turns (1 = pi/2): rotatePoint is exact for them.  atan2 is   *)
(* modelled on axis-aligned vectors only; a Rotating pointer-move whose    *)
(* bearing from the centre is not a multiple of pi/2 is not drawn as an    *)
(* input.  A coordinate that the code computes as 0 * Infinity is NaN: a   *)
(* point carries the flags nanx, nany for it.  A JavaScript number keeps   *)
(* 53 significant bits and every sum and difference is rounded to them;    *)
(* the model keeps MaxBits bits in normalizePoints.  Every coordinate of   *)
(* the controller specifications is below 2^MaxBits units, where sums and  *)
(* differences are exact.                                                  *)
(***************************************************************************)
EXTENDS Integers, Sequences, FiniteSets, TLC

VARIABLES
    tool,               \* prop `tool` of Blackboard (App's currentTool)
    history,            \* useHistory: history, a sequence of snapshots
    historyIndex,       \* useHistory: historyIndex (0-based, as in the code)
    currentStroke,      \* Blackboard: currentStroke (Null when null)
    isDrawing,          \* Blackboard: isDrawing
    selectedStrokeIds,  \* Blackboard: selectedStrokeIds
    selectionBox,       \* Blackboard: selectionBox (Null when null)
    interactionState,   \* Blackboard: interactionState
    nextId,             \* number of stroke ids generated so far
    pressed,            \* host: the pointer is down on the canvas
    events,             \* observer: the events counted against MaxEvents so far
    gesture             \* observer: what the gesture in progress started from

vars == <<tool, history, historyIndex, currentStroke, isDrawing,
          selectedStrokeIds, selectionBox, interactionState, nextId,
          pressed, events, gesture>>

-----------------------------------------------------------------------------
(* Bounds of the model *)

MaxStrokes == 1      \* stroke ids generated in one behaviour
MaxPoints == 2       \* points of a freehand stroke in progress
MaxEvents == 4       \* pointer-downs, tool changes, commands and freehand
                     \* points beyond the second in one behaviour
MaxPush == 60        \* snapshots pushed in the history-only specification
MaxMoves == 3        \* steps after the leading pushes in that specification
MaxBits == 9         \* significant bits of a number (53 in the program)

(* Program constants *)

HistoryCap == 50         \* if (newHistory.length > 50) newHistory.shift()
MaxIndex == 49           \* return nextIndex > 49 ? 49 : nextIndex
HandleRange == 10        \* const threshold = 10 / scale
HitThreshold == 10       \* threshold: number = 10
MinSize == 10            \* if (newW < 10) newW = 10
RotHandleOffset == 30    \* y: bounds.y - 30

\* Point.x, Point.y: number.  The model resolves a pixel into Sub parts.
Sub == 2
Px(n) == n * Sub

-----------------------------------------------------------------------------
(* Small helpers *)

Min(a, b) == IF a < b THEN a ELSE b
Max(a, b) == IF a > b THEN a ELSE b
Abs(a) == IF a < 0 THEN 0 - a ELSE a

SetMin(S) == CHOOSE m \in S : \A n \in S : m <= n
SetMax(S) == CHOOSE m \in S : \A n \in S : m >= n

Null == [null |-> TRUE]

Pt(x, y) == [x |-> x, y |-> y, nanx |-> FALSE, nany |-> FALSE]

\* the point at x, y pixels
At(x, y) == Pt(Px(x), Px(y))

-----------------------------------------------------------------------------
(* History manager: hooks/useHistory.ts.  A history value is the pair      *)
(* [history, historyIndex]; the index is 0-based, so the current snapshot  *)
(* is history[historyIndex + 1] of the TLA+ sequence.                      *)

\* strokes = history[historyIndex] || []
strokesOf(h, i) == IF i + 1 \in 1..Len(h) THEN h[i + 1] ELSE <<>>

canUndo(h, i) == i > 0
canRedo(h, i) == i < Len(h) - 1

pushToHistoryKeepRedo(h, i, newStrokes) ==
    LET pushed == Append(h, newStrokes)
        capped == IF Len(pushed) > HistoryCap THEN Tail(pushed) ELSE pushed
        nextIndex == i + 1
    IN  [history |-> capped,
         historyIndex |-> IF nextIndex > MaxIndex THEN MaxIndex ELSE nextIndex]

pushToHistoryNoEvict(h, i, newStrokes) ==
    LET pushed == Append(SubSeq(h, 1, Min(i + 1, Len(h))), newStrokes)
        nextIndex == i + 1
    IN  [history |-> pushed,
         historyIndex |-> IF nextIndex > MaxIndex THEN MaxIndex ELSE nextIndex]

pushToHistory(h, i, newStrokes) ==
    LET sliced == SubSeq(h, 1, Min(i + 1, Len(h)))
        pushed == Append(sliced, newStrokes)
        capped == IF Len(pushed) > HistoryCap THEN Tail(pushed) ELSE pushed
        nextIndex == i + 1
    IN  [history |-> capped,
         historyIndex |-> IF nextIndex > MaxIndex THEN MaxIndex ELSE nextIndex]

\* updateCurrentHistory storing every preview as a new snapshot
updateCurrentHistoryPush(h, i, updatedStrokes) ==
    [history |-> pushToHistory(h, i, updatedStrokes).history, historyIndex |-> i]

updateCurrentHistory(h, i, updatedStrokes) ==
    [history |-> [h EXCEPT ![i + 1] = updatedStrokes], historyIndex |-> i]

undoWrap(h, i) ==
    [history |-> h, historyIndex |-> IF i > 0 THEN i - 1 ELSE Len(h) - 1]

undo(h, i) ==
    [history |-> h, historyIndex |-> IF canUndo(h, i) THEN i - 1 ELSE i]

redoOffByOne(h, i) ==
    [history |-> h, historyIndex |-> IF i < Len(h) - 2 THEN i + 1 ELSE i]

redo(h, i) ==
    [history |-> h, historyIndex |-> IF canRedo(h, i) THEN i + 1 ELSE i]

clearKeep(h, i) == [history |-> h, historyIndex |-> i]

clear(h, i) == pushToHistory(h, i, <<>>)

strokes == strokesOf(history, historyIndex)

-----------------------------------------------------------------------------
(* Geometry kernel: utils/geometry.ts.  A stroke is                        *)
(* [id, type, points, position, rotation]; color and width are rendering   *)
(* parameters that no function below reads.                                *)

HasNaN(points) == \E i \in 1..Len(points) : points[i].nanx \/ points[i].nany

Double(p) == [x |-> 2 * p.x, y |-> 2 * p.y]

\* cos and sin of k quarter turns
Cos4(k) == CASE ((k % 4) + 4) % 4 = 0 -> 1
             [] ((k % 4) + 4) % 4 = 2 -> 0 - 1
             [] OTHER -> 0
Sin4(k) == CASE ((k % 4) + 4) % 4 = 1 -> 1
             [] ((k % 4) + 4) % 4 = 3 -> 0 - 1
             [] OTHER -> 0

\* squared distance; distance(a, b) < t is distanceSq(a, b) < t * t
distanceSq(a, b) == (b.x - a.x) * (b.x - a.x) + (b.y - a.y) * (b.y - a.y)

\* p, center and the result in the same units; angle in quarter turns
rotatePoint(p, center, angle) ==
    LET cos == Cos4(angle)
        sin == Sin4(angle)
        dx == p.x - center.x
        dy == p.y - center.y
    IN  [x |-> center.x + (dx * cos - dy * sin),
         y |-> center.y + (dx * sin + dy * cos)]

\* the centre of a box, in half-pixel units
getCenter(box) == [x |-> 2 * box.x + box.width, y |-> 2 * box.y + box.height]

\* nan: some coordinate of the points is NaN, so that x and width are
\* Infinity and -Infinity (or y and height), and every comparison with a
\* value derived from them is false
getUnrotatedBounds(stroke) ==
    LET position == stroke.position
        points == stroke.points
        xs == {points[i].x : i \in 1..Len(points)}
        ys == {points[i].y : i \in 1..Len(points)}
    IN  IF Len(points) = 0
        THEN [x |-> position.x, y |-> position.y, width |-> 0, height |-> 0,
              nan |-> FALSE]
        ELSE [x |-> SetMin(xs) + position.x,
              y |-> SetMin(ys) + position.y,
              width |-> SetMax(xs) - SetMin(xs),
              height |-> SetMax(ys) - SetMin(ys),
              nan |-> HasNaN(points)]

getStrokeBounds(stroke) == getUnrotatedBounds(stroke)

\* the handles with the rotation of the stroke left out
getHandleCoordsUnrotated(stroke) ==
    LET bounds == getUnrotatedBounds(stroke)
        x0 == 2 * bounds.x
        x1 == 2 * bounds.x + bounds.width
        x2 == 2 * (bounds.x + bounds.width)
        y0 == 2 * bounds.y
        y1 == 2 * bounds.y + bounds.height
        y2 == 2 * (bounds.y + bounds.height)
    IN  [nw |-> [x |-> x0, y |-> y0], ne |-> [x |-> x2, y |-> y0],
         se |-> [x |-> x2, y |-> y2], sw |-> [x |-> x0, y |-> y2],
         n |-> [x |-> x1, y |-> y0], s |-> [x |-> x1, y |-> y2],
         e |-> [x |-> x2, y |-> y1], w |-> [x |-> x0, y |-> y1],
         rot |-> [x |-> x1, y |-> 2 * (bounds.y - Px(RotHandleOffset))]]

\* the nine handles, in half-pixel units
getHandleCoords(stroke) ==
    LET bounds == getUnrotatedBounds(stroke)
        center == getCenter(bounds)
        rotation == stroke.rotation
        x0 == 2 * bounds.x
        x1 == 2 * bounds.x + bounds.width
        x2 == 2 * (bounds.x + bounds.width)
        y0 == 2 * bounds.y
        y1 == 2 * bounds.y + bounds.height
        y2 == 2 * (bounds.y + bounds.height)
    IN  [nw |-> rotatePoint([x |-> x0, y |-> y0], center, rotation),
         ne |-> rotatePoint([x |-> x2, y |-> y0], center, rotation),
         se |-> rotatePoint([x |-> x2, y |-> y2], center, rotation),
         sw |-> rotatePoint([x |-> x0, y |-> y2], center, rotation),
         n |-> rotatePoint([x |-> x1, y |-> y0], center, rotation),
         s |-> rotatePoint([x |-> x1, y |-> y2], center, rotation),
         e |-> rotatePoint([x |-> x2, y |-> y1], center, rotation),
         w |-> rotatePoint([x |-> x0, y |-> y1], center, rotation),
         rot |-> rotatePoint([x |-> x1, y |-> 2 * (bounds.y - Px(RotHandleOffset))],
                             center, rotation)]

\* the order of the tests with the edge handles before the corners
HandleOrderEdgesFirst == <<"rot", "n", "s", "e", "w", "nw", "ne", "se", "sw">>

HandleOrder == <<"rot", "nw", "ne", "se", "sw", "n", "s", "e", "w">>

\* the first handle, in the order of the code's tests, at distance
\* < 10 / scale from p; "null" when there is none
hitTestHandles(stroke, p, scale) ==
    LET handles == getHandleCoords(stroke)
        near(h) == distanceSq(Double(p), handles[h]) * scale * scale
                       < (2 * Px(HandleRange)) * (2 * Px(HandleRange))
        hits == {i \in 1..Len(HandleOrder) : near(HandleOrder[i])}
    IN  IF HasNaN(stroke.points) \/ hits = {} THEN "null"
        ELSE HandleOrder[SetMin(hits)]

\* a * a < n for integers a, n with n > 0, without computing a * a
SquareLess(a, n) == a = 0 \/ Abs(a) <= (n - 1) \div Abs(a)

\* the square of a >= 0 as the digits <<d2, d1, d0>> of d2 * 10^6 + d1 * 10^3
\* + d0, times the factor k; for the squares that exceed the integer range
Carry(c2, c1, c0) ==
    <<c2 + (c1 + c0 \div 1000) \div 1000, (c1 + c0 \div 1000) % 1000, c0 % 1000>>
ScaledSquare(k, a) ==
    Carry(k * (a \div 1000) * (a \div 1000), k * 2 * (a \div 1000) * (a % 1000),
          k * (a % 1000) * (a % 1000))
DigitsSum(m, n) == Carry(m[1] + n[1], m[2] + n[2], m[3] + n[3])
DigitsLess(m, n) ==
    \/ m[1] < n[1]
    \/ m[1] = n[1] /\ m[2] < n[2]
    \/ m[1] = n[1] /\ m[2] = n[2] /\ m[3] < n[3]

\* distanceToSegment(p, v, w) < threshold, all in the same units: with
\* 0 < t < 1 the distance is |(p - v) x (w - v)| / |w - v|
distanceToSegmentLess(p, v, w, threshold) ==
    LET l2 == distanceSq(v, w)
        dot == (p.x - v.x) * (w.x - v.x) + (p.y - v.y) * (w.y - v.y)
        cross == (p.x - v.x) * (w.y - v.y) - (p.y - v.y) * (w.x - v.x)
        tt == threshold * threshold
    IN  IF l2 = 0 THEN distanceSq(p, v) < tt
        ELSE IF dot <= 0 THEN distanceSq(p, v) < tt
        ELSE IF dot >= l2 THEN distanceSq(p, w) < tt
        ELSE SquareLess(cross, tt * l2)

\* hitTestStroke with the rect tested as a filled shape
hitTestStrokeFilled(stroke, p, threshold) ==
    LET bounds == getUnrotatedBounds(stroke)
        center == getCenter(bounds)
        localP == rotatePoint(Double(p), center, 0 - stroke.rotation)
        relativeP == [x |-> localP.x - 2 * stroke.position.x,
                      y |-> localP.y - 2 * stroke.position.y]
        points == stroke.points
        type == stroke.type
        t2 == 2 * threshold
        minX == 2 * bounds.x
        maxX == 2 * (bounds.x + bounds.width)
        minY == 2 * bounds.y
        maxY == 2 * (bounds.y + bounds.height)
        normX == localP.x - center.x
        normY == localP.y - center.y
        area == bounds.width * bounds.height
        distN(k) == DigitsSum(ScaledSquare(k, Abs(normX * bounds.height)),
                              ScaledSquare(k, Abs(normY * bounds.width)))
    IN  IF bounds.nan THEN FALSE
        ELSE IF \/ localP.x < minX - t2 \/ localP.x > maxX + t2
                \/ localP.y < minY - t2 \/ localP.y > maxY + t2 THEN FALSE
        ELSE IF type = "rect" THEN TRUE
        ELSE IF type = "circle"
             THEN /\ area # 0
                  /\ DigitsLess(ScaledSquare(4, area), distN(5))
                  /\ DigitsLess(distN(5), ScaledSquare(6, area))
        ELSE IF type = "freehand" \/ type = "arrow"
             THEN \E i \in 1..(Len(points) - 1) :
                      distanceToSegmentLess(relativeP, Double(points[i]),
                                            Double(points[i + 1]), t2)
        ELSE FALSE

hitTestStroke(stroke, p, threshold) ==
    LET bounds == getUnrotatedBounds(stroke)
        center == getCenter(bounds)
        localP == rotatePoint(Double(p), center, 0 - stroke.rotation)
        relativeP == [x |-> localP.x - 2 * stroke.position.x,
                      y |-> localP.y - 2 * stroke.position.y]
        points == stroke.points
        type == stroke.type
        t2 == 2 * threshold
        minX == 2 * bounds.x
        maxX == 2 * (bounds.x + bounds.width)
        minY == 2 * bounds.y
        maxY == 2 * (bounds.y + bounds.height)
        onVertical ==
            /\ localP.y >= minY - t2 /\ localP.y <= maxY + t2
            /\ (Abs(localP.x - minX) < t2 \/ Abs(localP.x - maxX) < t2)
        onHorizontal ==
            /\ localP.x >= minX - t2 /\ localP.x <= maxX + t2
            /\ (Abs(localP.y - minY) < t2 \/ Abs(localP.y - maxY) < t2)
        \* dist = normX^2 / radiusX^2 + normY^2 / radiusY^2
        \*      = ((normX * height)^2 + (normY * width)^2) / (width * height)^2
        \* with normX, normY in half-pixel units
        normX == localP.x - center.x
        normY == localP.y - center.y
        area == bounds.width * bounds.height
        distN(k) == DigitsSum(ScaledSquare(k, Abs(normX * bounds.height)),
                              ScaledSquare(k, Abs(normY * bounds.width)))
    IN  IF bounds.nan THEN FALSE
        ELSE IF \/ localP.x < minX - t2 \/ localP.x > maxX + t2
                \/ localP.y < minY - t2 \/ localP.y > maxY + t2 THEN FALSE
        ELSE IF type = "rect" THEN onVertical \/ onHorizontal
        ELSE IF type = "circle"
             THEN \* a zero radius gives Infinity or NaN: not on the perimeter
                  \* Math.abs(dist - 1) < 0.2: 4/5 < dist < 6/5
                  /\ area # 0
                  /\ DigitsLess(ScaledSquare(4, area), distN(5))
                  /\ DigitsLess(distN(5), ScaledSquare(6, area))
        ELSE IF type = "freehand" \/ type = "arrow"
             THEN \E i \in 1..(Len(points) - 1) :
                      distanceToSegmentLess(relativeP, Double(points[i]),
                                            Double(points[i + 1]), t2)
        ELSE FALSE

\* the weight of the last significant bit of n >= 0
RECURSIVE Ulp(_)
Ulp(n) == IF n < 2^MaxBits THEN 1 ELSE 2 * Ulp(n \div 2)

\* n rounded to the nearest number of MaxBits significant bits, ties to the
\* even significand: the result of every arithmetic operation on numbers
Round(n) ==
    LET u == Ulp(Abs(n))
        q == Abs(n) \div u
        r == Abs(n) % u
        m == IF 2 * r > u \/ (2 * r = u /\ q % 2 = 1) THEN (q + 1) * u ELSE q * u
    IN  IF n < 0 THEN 0 - m ELSE m

\* normalizePoints with the first point taken as the offset
normalizePointsFirstOffset(points) ==
    LET xs == {points[i].x : i \in 1..Len(points)}
        ys == {points[i].y : i \in 1..Len(points)}
    IN  IF Len(points) = 0
        THEN [points |-> <<>>, offset |-> Pt(0, 0), width |-> 0, height |-> 0]
        ELSE [points |-> [i \in 1..Len(points) |->
                             Pt(Round(points[i].x - points[1].x),
                                Round(points[i].y - points[1].y))],
              offset |-> Pt(points[1].x, points[1].y),
              width |-> Round(SetMax(xs) - SetMin(xs)),
              height |-> Round(SetMax(ys) - SetMin(ys))]

\* normalizePoints without the shift of the points to the origin
normalizePointsNoShift(points) ==
    LET xs == {points[i].x : i \in 1..Len(points)}
        ys == {points[i].y : i \in 1..Len(points)}
    IN  IF Len(points) = 0
        THEN [points |-> <<>>, offset |-> Pt(0, 0), width |-> 0, height |-> 0]
        ELSE [points |-> points,
              offset |-> Pt(SetMin(xs), SetMin(ys)),
              width |-> SetMax(xs) - SetMin(xs),
              height |-> SetMax(ys) - SetMin(ys)]

normalizePoints(points) ==
    LET xs == {points[i].x : i \in 1..Len(points)}
        ys == {points[i].y : i \in 1..Len(points)}
    IN  IF Len(points) = 0
        THEN [points |-> <<>>, offset |-> Pt(0, 0), width |-> 0, height |-> 0]
        ELSE [points |-> [i \in 1..Len(points) |->
                             Pt(Round(points[i].x - SetMin(xs)),
                                Round(points[i].y - SetMin(ys)))],
              offset |-> Pt(SetMin(xs), SetMin(ys)),
              width |-> Round(SetMax(xs) - SetMin(xs)),
              height |-> Round(SetMax(ys) - SetMin(ys))]

getSelectionBoxBounds(box) ==
    [x |-> Min(box.start.x, box.current.x),
     y |-> Min(box.start.y, box.current.y),
     width |-> Abs(box.current.x - box.start.x),
     height |-> Abs(box.current.y - box.start.y),
     nan |-> FALSE]

\* checkIntersection50Percent with the ratio compared by > 0.5
checkIntersectionOverHalf(selection, strokeBounds) ==
    LET xOverlap == Max(0, Min(selection.x + selection.width,
                               strokeBounds.x + strokeBounds.width)
                           - Max(selection.x, strokeBounds.x))
        yOverlap == Max(0, Min(selection.y + selection.height,
                               strokeBounds.y + strokeBounds.height)
                           - Max(selection.y, strokeBounds.y))
        intersectionArea == xOverlap * yOverlap
        strokeArea == strokeBounds.width * strokeBounds.height
    IN  IF strokeBounds.nan THEN FALSE
        ELSE IF strokeArea = 0 THEN FALSE
        ELSE 2 * intersectionArea > strokeArea

checkIntersection50Percent(selection, strokeBounds) ==
    LET xOverlap == Max(0, Min(selection.x + selection.width,
                               strokeBounds.x + strokeBounds.width)
                           - Max(selection.x, strokeBounds.x))
        yOverlap == Max(0, Min(selection.y + selection.height,
                               strokeBounds.y + strokeBounds.height)
                           - Max(selection.y, strokeBounds.y))
        intersectionArea == xOverlap * yOverlap
        strokeArea == strokeBounds.width * strokeBounds.height
    IN  IF strokeBounds.nan THEN FALSE
        ELSE IF strokeArea = 0 THEN FALSE
        ELSE 2 * intersectionArea >= strokeArea

\* Math.atan2(y, x) in quarter turns, for an axis-aligned (x, y)
IsAxisAligned(x, y) == x = 0 \/ y = 0
atan2(y, x) ==
    IF y = 0 THEN (IF x >= 0 THEN 0 ELSE 2)
    ELSE IF y > 0 THEN 1 ELSE 0 - 1

-----------------------------------------------------------------------------
(* Interaction controller: components/Blackboard.tsx.  Every handler runs  *)
(* to completion on the state of the latest render.                        *)

\* the canvas positions the pointer events are drawn from
Positions == {At(20, 40), At(60, 80), At(40, 10), At(60, 60)}

Tools == {"chalk", "select", "eraser", "rect", "circle", "arrow"}
DrawingTools == {"chalk", "rect", "circle", "arrow"}

IdleInteraction ==
    [type |-> "idle", handle |-> "null", startPos |-> Pt(0, 0),
     initialStrokes |-> <<>>]

\* strokes.find(s => s.id === id); Null when there is none
FindStroke(ss, id) ==
    LET at == {i \in 1..Len(ss) : ss[i].id = id}
    IN  IF at = {} THEN Null ELSE ss[SetMin(at)]

\* the id of the n-th stroke created: Date.now().toString() + Math.random()
NewId(n) == ToString(n)
NoId == "null"

Ids(ss) == {ss[i].id : i \in 1..Len(ss)}

\* the filter removing only the topmost of the strokes that coords hits
EraseAtTopmost(ss, coords) ==
    LET hit == {i \in 1..Len(ss) : hitTestStroke(ss[i], coords, Px(HitThreshold))}
    IN  IF hit = {} THEN ss
        ELSE [i \in 1..(Len(ss) - 1) |->
                 IF i < SetMax(hit) THEN ss[i] ELSE ss[i + 1]]

\* strokes.filter(s => !hitTestStroke(s, coords))
EraseAt(ss, coords) ==
    SelectSeq(ss, LAMBDA s : ~hitTestStroke(s, coords, Px(HitThreshold)))

\* the observer of gestures: kind and phase of the last gesture, the stroke
\* list and history position it started from, the list it ended with;
\* plain: the controller was idle at pointer-down and only pointer events
\* followed; sel: the selection that the pointer-down of the gesture in
\* progress, or the clear, found; start: where the pointer went down for the
\* drag in progress
NoGesture ==
    [kind |-> "none", phase |-> "none", before |-> <<>>, beforeLen |-> 0,
     beforeIdx |-> 0, after |-> <<>>, committed |-> FALSE, plain |-> FALSE,
     sel |-> {}, start |-> Pt(0, 0)]

Quiet ==
    /\ ~isDrawing
    /\ currentStroke = Null
    /\ selectionBox = Null
    /\ interactionState.type = "idle"

BeginGesture(kind) ==
    [NoGesture EXCEPT !.kind = kind, !.phase = "active", !.before = strokes,
                      !.beforeLen = Len(history), !.beforeIdx = historyIndex,
                      !.plain = Quiet]

Init ==
    /\ tool = "chalk"
    /\ history = << <<>> >>
    /\ historyIndex = 0
    /\ currentStroke = Null
    /\ isDrawing = FALSE
    /\ selectedStrokeIds = {}
    /\ selectionBox = Null
    /\ interactionState = IdleInteraction
    /\ nextId = 0
    /\ pressed = FALSE
    /\ events = 0
    /\ gesture = NoGesture

Tick == events < MaxEvents /\ events' = events + 1

\* handleStart of a drawing tool without setSelectedStrokeIds(new Set())
StartDrawingKeepSelection(coords) ==
    /\ tool \in DrawingTools
    /\ nextId < MaxStrokes
    /\ isDrawing' = TRUE
    /\ currentStroke' = [type |-> IF tool = "chalk" THEN "freehand" ELSE tool,
                         points |-> <<coords>>]
    /\ UNCHANGED selectedStrokeIds
    /\ gesture' = [BeginGesture("draw") EXCEPT !.sel = selectedStrokeIds]
    /\ UNCHANGED <<history, historyIndex, selectionBox, interactionState>>

\* handleStart, 1. Drawing Tools
StartDrawing(coords) ==
    /\ tool \in DrawingTools
    /\ nextId < MaxStrokes
    /\ isDrawing' = TRUE
    /\ currentStroke' = [type |-> IF tool = "chalk" THEN "freehand" ELSE tool,
                         points |-> <<coords>>]
    /\ selectedStrokeIds' = {}
    /\ gesture' = [BeginGesture("draw") EXCEPT !.sel = selectedStrokeIds]
    /\ UNCHANGED <<history, historyIndex, selectionBox, interactionState>>

\* handleStart, 2.A: the handle hit, when exactly one stroke is selected
HandleHit(coords) ==
    IF Cardinality(selectedStrokeIds) = 1
    THEN LET id == CHOOSE i \in selectedStrokeIds : TRUE
             stroke == FindStroke(strokes, id)
         IN  IF stroke = Null THEN "null" ELSE hitTestHandles(stroke, coords, 1)
    ELSE "null"

\* the clicked stroke with the unselected strokes tested from the bottom
ClickedIdBottomFirst(coords) ==
    LET selectedHit ==
            {id \in selectedStrokeIds :
                /\ FindStroke(strokes, id) # Null
                /\ hitTestStroke(FindStroke(strokes, id), coords, Px(HitThreshold))}
        hit == {i \in 1..Len(strokes) :
                   hitTestStroke(strokes[i], coords, Px(HitThreshold))}
    IN  IF selectedHit # {} THEN CHOOSE id \in selectedHit : TRUE
        ELSE IF hit # {} THEN strokes[SetMin(hit)].id
        ELSE NoId

\* the clicked stroke without the pass over the selected strokes
ClickedIdTopmost(coords) ==
    LET hit == {i \in 1..Len(strokes) :
                   hitTestStroke(strokes[i], coords, Px(HitThreshold))}
    IN  IF hit # {} THEN strokes[SetMax(hit)].id
        ELSE NoId

\* handleStart, 2.B: the clicked stroke; NoId when none is hit
ClickedId(coords) ==
    LET selectedHit ==
            {id \in selectedStrokeIds :
                /\ FindStroke(strokes, id) # Null
                /\ hitTestStroke(FindStroke(strokes, id), coords, Px(HitThreshold))}
        hit == {i \in 1..Len(strokes) :
                   hitTestStroke(strokes[i], coords, Px(HitThreshold))}
    IN  IF selectedHit # {} THEN CHOOSE id \in selectedHit : TRUE
        ELSE IF hit # {} THEN strokes[SetMax(hit)].id
        ELSE NoId

\* handleStart of the select tool testing the stroke bodies before the
\* handles
StartSelectBodyFirst(coords) ==
    /\ tool = "select"
    /\ LET handle == HandleHit(coords)
           clickedId == ClickedId(coords)
       IN  IF clickedId # NoId
           THEN /\ selectedStrokeIds' =
                       IF clickedId \in selectedStrokeIds
                       THEN selectedStrokeIds ELSE {clickedId}
                /\ interactionState' =
                       [type |-> "drag", handle |-> "null", startPos |-> coords,
                        initialStrokes |-> strokes]
                /\ gesture' = [BeginGesture("drag") EXCEPT
                                   !.start = coords,
                                   !.sel = selectedStrokeIds]
                /\ UNCHANGED selectionBox
           ELSE IF handle # "null"
           THEN /\ interactionState' =
                       [type |-> IF handle = "rot" THEN "rotate" ELSE "resize",
                        handle |-> handle, startPos |-> coords,
                        initialStrokes |-> strokes]
                /\ gesture' = BeginGesture(IF handle = "rot" THEN "rotate"
                                           ELSE "resize")
                /\ UNCHANGED <<selectedStrokeIds, selectionBox>>
           ELSE /\ selectedStrokeIds' = {}
                /\ selectionBox' = [start |-> coords, current |-> coords]
                /\ gesture' = [BeginGesture("box") EXCEPT
                                   !.sel = selectedStrokeIds]
                /\ UNCHANGED interactionState
    /\ UNCHANGED <<history, historyIndex, currentStroke, isDrawing>>

\* handleStart, 2. Select Tool
StartSelect(coords) ==
    /\ tool = "select"
    /\ LET handle == HandleHit(coords)
           clickedId == ClickedId(coords)
       IN  IF handle # "null"
           THEN /\ interactionState' =
                       [type |-> IF handle = "rot" THEN "rotate" ELSE "resize",
                        handle |-> handle, startPos |-> coords,
                        initialStrokes |-> strokes]
                /\ gesture' = BeginGesture(IF handle = "rot" THEN "rotate"
                                           ELSE "resize")
                /\ UNCHANGED <<selectedStrokeIds, selectionBox>>
           ELSE IF clickedId # NoId
           THEN /\ selectedStrokeIds' =
                       IF clickedId \in selectedStrokeIds
                       THEN selectedStrokeIds ELSE {clickedId}
                /\ interactionState' =
                       [type |-> "drag", handle |-> "null", startPos |-> coords,
                        initialStrokes |-> strokes]
                /\ gesture' = [BeginGesture("drag") EXCEPT
                                   !.start = coords,
                                   !.sel = selectedStrokeIds]
                /\ UNCHANGED selectionBox
           ELSE /\ selectedStrokeIds' = {}
                /\ selectionBox' = [start |-> coords, current |-> coords]
                /\ gesture' = [BeginGesture("box") EXCEPT
                                   !.sel = selectedStrokeIds]
                /\ UNCHANGED interactionState
    /\ UNCHANGED <<history, historyIndex, currentStroke, isDrawing>>

\* handleStart, 3. Eraser
StartEraser(coords) ==
    /\ tool = "eraser"
    /\ isDrawing' = TRUE
    /\ LET remaining == EraseAt(strokes, coords)
           pushed == pushToHistory(history, historyIndex, remaining)
       IN  IF Len(remaining) # Len(strokes)
           THEN /\ history' = pushed.history
                /\ historyIndex' = pushed.historyIndex
           ELSE UNCHANGED <<history, historyIndex>>
    /\ gesture' = BeginGesture("erase")
    /\ UNCHANGED <<currentStroke, selectedStrokeIds, selectionBox,
                   interactionState>>

\* handleStart: onMouseDown, onTouchStart
handleStart(coords) ==
    /\ Tick
    /\ ~pressed
    /\ pressed' = TRUE
    /\ \/ StartDrawing(coords)
       \/ StartSelect(coords)
       \/ StartEraser(coords)
    /\ UNCHANGED <<tool, nextId>>

\* handleMove, Drawing
MoveDrawing(coords) ==
    /\ isDrawing /\ currentStroke # Null
    /\ IF currentStroke.type = "freehand"
       THEN /\ Len(currentStroke.points) < MaxPoints
            /\ IF Len(currentStroke.points) < 2 THEN UNCHANGED events ELSE Tick
            /\ currentStroke' = [currentStroke EXCEPT
                                    !.points = Append(@, coords)]
       ELSE /\ UNCHANGED events
            /\ currentStroke' = [currentStroke EXCEPT
                                 !.points = <<@[1], coords>>]
    /\ UNCHANGED <<history, historyIndex, interactionState, selectionBox>>

\* the drag that also brings the selected strokes to the front
DragStrokesToFront(ss, selected, dx, dy) ==
    SelectSeq(ss, LAMBDA s : s.id \notin selected)
        \o [i \in 1..Len(SelectSeq(ss, LAMBDA s : s.id \in selected)) |->
               [SelectSeq(ss, LAMBDA s : s.id \in selected)[i] EXCEPT
                   !.position = Pt(@.x + dx, @.y + dy)]]

\* the drag applied to every stroke, selected or not
DragStrokesAll(ss, selected, dx, dy) ==
    [i \in 1..Len(ss) |-> [ss[i] EXCEPT !.position = Pt(@.x + dx, @.y + dy)]]

\* handleMove, type === 'drag'
DragStrokes(ss, selected, dx, dy) ==
    [i \in 1..Len(ss) |->
        IF ss[i].id \in selected
        THEN [ss[i] EXCEPT !.position = Pt(@.x + dx, @.y + dy)]
        ELSE ss[i]]

\* the rotation applied to every stroke, selected or not
RotateStrokesAll(ss, id, initialStroke, startPos, coords) ==
    LET bounds == getUnrotatedBounds(initialStroke)
        center == getCenter(bounds)
        startAngle == atan2(2 * startPos.y - center.y, 2 * startPos.x - center.x)
        currentAngle == atan2(2 * coords.y - center.y, 2 * coords.x - center.x)
        deltaRotation == currentAngle - startAngle
    IN  [i \in 1..Len(ss) |->
            [ss[i] EXCEPT !.rotation = initialStroke.rotation + deltaRotation]]

\* handleMove, type === 'rotate'
RotateStrokes(ss, id, initialStroke, startPos, coords) ==
    LET bounds == getUnrotatedBounds(initialStroke)
        center == getCenter(bounds)
        startAngle == atan2(2 * startPos.y - center.y, 2 * startPos.x - center.x)
        currentAngle == atan2(2 * coords.y - center.y, 2 * coords.x - center.x)
        deltaRotation == currentAngle - startAngle
    IN  [i \in 1..Len(ss) |->
            IF ss[i].id = id
            THEN [ss[i] EXCEPT !.rotation = initialStroke.rotation + deltaRotation]
            ELSE ss[i]]

RotateAligned(initialStroke, startPos, coords) ==
    LET center == getCenter(getUnrotatedBounds(initialStroke))
    IN  /\ IsAxisAligned(2 * startPos.x - center.x, 2 * startPos.y - center.y)
        /\ IsAxisAligned(2 * coords.x - center.x, 2 * coords.y - center.y)

\* the request with the se handle changing the width only
ResizeRequestSeWidthOnly(initialStroke, handle, startPos, coords) ==
    LET bounds == getUnrotatedBounds(initialStroke)
        center == getCenter(bounds)
        localMouse == rotatePoint(Double(coords), center, 0 - initialStroke.rotation)
        localStart == rotatePoint(Double(startPos), center, 0 - initialStroke.rotation)
        dx == (localMouse.x - localStart.x) \div 2
        dy == (localMouse.y - localStart.y) \div 2
        newX == IF handle \in {"sw", "nw", "w"} THEN bounds.x + dx ELSE bounds.x
        newY == IF handle \in {"ne", "nw", "n"} THEN bounds.y + dy ELSE bounds.y
        newW == IF handle \in {"se", "ne", "e"} THEN bounds.width + dx
                ELSE IF handle \in {"sw", "nw", "w"} THEN bounds.width - dx
                ELSE bounds.width
        newH == IF handle \in {"sw", "s"} THEN bounds.height + dy
                ELSE IF handle \in {"ne", "nw", "n"} THEN bounds.height - dy
                ELSE bounds.height
    IN  [x |-> newX, y |-> newY, width |-> newW, height |-> newH]

\* handleMove, type === 'resize': the box the handle asks for, before the
\* clamp
ResizeRequest(initialStroke, handle, startPos, coords) ==
    LET bounds == getUnrotatedBounds(initialStroke)
        center == getCenter(bounds)
        localMouse == rotatePoint(Double(coords), center, 0 - initialStroke.rotation)
        localStart == rotatePoint(Double(startPos), center, 0 - initialStroke.rotation)
        dx == (localMouse.x - localStart.x) \div 2
        dy == (localMouse.y - localStart.y) \div 2
        newX == IF handle \in {"sw", "nw", "w"} THEN bounds.x + dx ELSE bounds.x
        newY == IF handle \in {"ne", "nw", "n"} THEN bounds.y + dy ELSE bounds.y
        newW == IF handle \in {"se", "ne", "e"} THEN bounds.width + dx
                ELSE IF handle \in {"sw", "nw", "w"} THEN bounds.width - dx
                ELSE bounds.width
        newH == IF handle \in {"se", "sw", "s"} THEN bounds.height + dy
                ELSE IF handle \in {"ne", "nw", "n"} THEN bounds.height - dy
                ELSE bounds.height
    IN  [x |-> newX, y |-> newY, width |-> newW, height |-> newH]

\* handleMove, type === 'resize': the new box, clamped to the minimum size
ResizeBox(initialStroke, handle, startPos, coords) ==
    LET request == ResizeRequest(initialStroke, handle, startPos, coords)
    IN  [x |-> request.x, y |-> request.y,
         width |-> IF request.width < Px(MinSize) THEN Px(MinSize)
                   ELSE request.width,
         height |-> IF request.height < Px(MinSize) THEN Px(MinSize)
                    ELSE request.height]

\* Arrow scaling: p.x * (newW / bounds.width).  The points of an arrow are
\* normalized, so with bounds.width = 0 every p.x is 0 and 0 * Infinity is
\* NaN; otherwise p.x is 0 or bounds.width and the product is exact.
ScalePoint(p, box, bounds) ==
    [x |-> IF bounds.width = 0 THEN 0 ELSE (p.x * box.width) \div bounds.width,
     y |-> IF bounds.height = 0 THEN 0 ELSE (p.y * box.height) \div bounds.height,
     nanx |-> bounds.width = 0,
     nany |-> bounds.height = 0]

ResizeStrokes(ss, id, initialStroke, handle, startPos, coords) ==
    LET bounds == getUnrotatedBounds(initialStroke)
        box == ResizeBox(initialStroke, handle, startPos, coords)
    IN  [i \in 1..Len(ss) |->
            IF ss[i].id = id /\ ss[i].type \in {"rect", "circle"}
            THEN [ss[i] EXCEPT !.position = Pt(box.x, box.y),
                               !.points = <<Pt(0, 0), Pt(box.width, box.height)>>]
            ELSE IF ss[i].id = id /\ ss[i].type = "arrow"
            THEN [ss[i] EXCEPT !.position = Pt(box.x, box.y),
                               !.points = [j \in 1..Len(initialStroke.points) |->
                                   ScalePoint(initialStroke.points[j], box, bounds)]]
            ELSE ss[i]]

\* handleMove of the select tool taking the drag branch when no transform
\* is in progress as well
MoveSelectDragWhenIdle(coords) ==
    /\ ~(isDrawing /\ currentStroke # Null)
    /\ tool = "select"
    /\ LET type == interactionState.type
           startPos == interactionState.startPos
           initialStrokes == interactionState.initialStrokes
           handle == interactionState.handle
           single == Cardinality(selectedStrokeIds) = 1
           id == CHOOSE i \in selectedStrokeIds : TRUE
           initialStroke == FindStroke(initialStrokes, id)
           preview(newStrokes) ==
               /\ history' = updateCurrentHistory(history, historyIndex,
                                                  newStrokes).history
               /\ UNCHANGED historyIndex
       IN  IF type = "rotate" /\ single
           THEN IF initialStroke = Null
                THEN UNCHANGED <<history, historyIndex, interactionState, selectionBox>>
                ELSE /\ RotateAligned(initialStroke, startPos, coords)
                     /\ preview(RotateStrokes(strokes, id, initialStroke,
                                              startPos, coords))
                     /\ UNCHANGED <<interactionState, selectionBox>>
           ELSE IF type = "resize" /\ single
           THEN IF initialStroke = Null
                THEN UNCHANGED <<history, historyIndex, interactionState, selectionBox>>
                ELSE /\ preview(ResizeStrokes(strokes, id, initialStroke, handle,
                                              startPos, coords))
                     /\ UNCHANGED <<interactionState, selectionBox>>
           ELSE IF selectionBox # Null
           THEN /\ selectionBox' = [selectionBox EXCEPT !.current = coords]
                /\ UNCHANGED <<history, historyIndex, interactionState>>
           ELSE /\ preview(DragStrokes(strokes, selectedStrokeIds,
                                       coords.x - startPos.x, coords.y - startPos.y))
                /\ interactionState' = [interactionState EXCEPT !.startPos = coords]
                /\ UNCHANGED selectionBox
    /\ UNCHANGED <<currentStroke, events>>

\* handleMove, Select / Transform Tool, with a transform or a selection box
\* in progress
MoveSelect(coords) ==
    /\ ~(isDrawing /\ currentStroke # Null)
    /\ tool = "select"
    /\ interactionState.type # "idle" \/ selectionBox # Null
    /\ LET type == interactionState.type
           startPos == interactionState.startPos
           initialStrokes == interactionState.initialStrokes
           handle == interactionState.handle
           single == Cardinality(selectedStrokeIds) = 1
           id == CHOOSE i \in selectedStrokeIds : TRUE
           initialStroke == FindStroke(initialStrokes, id)
           preview(newStrokes) ==
               /\ history' = updateCurrentHistory(history, historyIndex,
                                                  newStrokes).history
               /\ UNCHANGED historyIndex
       IN  IF type = "drag"
           THEN /\ preview(DragStrokes(strokes, selectedStrokeIds,
                                       coords.x - startPos.x, coords.y - startPos.y))
                /\ interactionState' = [interactionState EXCEPT !.startPos = coords]
                /\ UNCHANGED selectionBox
           ELSE IF type = "rotate" /\ single
           THEN IF initialStroke = Null
                THEN UNCHANGED <<history, historyIndex, interactionState, selectionBox>>
                ELSE /\ RotateAligned(initialStroke, startPos, coords)
                     /\ preview(RotateStrokes(strokes, id, initialStroke,
                                              startPos, coords))
                     /\ UNCHANGED <<interactionState, selectionBox>>
           ELSE IF type = "resize" /\ single
           THEN IF initialStroke = Null
                THEN UNCHANGED <<history, historyIndex, interactionState, selectionBox>>
                ELSE /\ preview(ResizeStrokes(strokes, id, initialStroke, handle,
                                              startPos, coords))
                     /\ UNCHANGED <<interactionState, selectionBox>>
           ELSE IF selectionBox # Null
           THEN /\ selectionBox' = [selectionBox EXCEPT !.current = coords]
                /\ UNCHANGED <<history, historyIndex, interactionState>>
           ELSE UNCHANGED <<history, historyIndex, interactionState, selectionBox>>
    /\ UNCHANGED <<currentStroke, events>>

\* handleMove, Eraser
MoveEraser(coords) ==
    /\ ~(isDrawing /\ currentStroke # Null)
    /\ tool = "eraser" /\ isDrawing
    /\ LET remaining == EraseAt(strokes, coords)
       IN  IF Len(remaining) # Len(strokes)
           THEN history' = updateCurrentHistory(history, historyIndex,
                                                remaining).history
           ELSE UNCHANGED history
    /\ UNCHANGED <<historyIndex, currentStroke, interactionState, selectionBox,
                   events>>

\* handleMove with no branch taken, wherever the pointer is: hovering with
\* the select tool and nothing in progress (only the cursor is set), or
\* with another tool that is not erasing
MoveNone ==
    /\ ~(isDrawing /\ currentStroke # Null)
    /\ IF tool = "select"
       THEN interactionState.type = "idle" /\ selectionBox = Null
       ELSE ~(tool = "eraser" /\ isDrawing)
    /\ UNCHANGED vars

\* what a pointer-move makes of the observer: hovering that changes nothing
\* leaves it alone; a change between the pointer-up and the undo ends the
\* observation
ObserveOther ==
    IF \/ gesture.phase = "active"
       \/ /\ history' = history
          /\ currentStroke' = currentStroke
          /\ interactionState' = interactionState
          /\ selectionBox' = selectionBox
    THEN gesture ELSE NoGesture

\* handleMove: onMouseMove, onTouchMove
handleMove(coords) ==
    /\ \/ MoveDrawing(coords)
       \/ MoveSelect(coords)
       \/ MoveEraser(coords)
    /\ gesture' = ObserveOther
    /\ UNCHANGED <<tool, isDrawing, selectedStrokeIds, nextId, pressed>>

\* what a pointer-up makes of the observer: it ends the gesture in progress;
\* with no gesture in progress (the pointer leaves the canvas after the
\* pointer-up) one that changes nothing leaves the observer alone
EndGesture ==
    IF gesture.phase = "active"
    THEN [gesture EXCEPT !.phase = "done",
                         !.after = strokesOf(history', historyIndex'),
                         !.committed = nextId' # nextId,
                         !.sel = {}, !.start = Pt(0, 0)]
    ELSE IF /\ history' = history
            /\ historyIndex' = historyIndex
            /\ currentStroke' = currentStroke
            /\ isDrawing' = isDrawing
            /\ selectedStrokeIds' = selectedStrokeIds
            /\ selectionBox' = selectionBox
            /\ interactionState' = interactionState
    THEN gesture ELSE NoGesture

\* handleEnd, Finish Drawing, committing a shape of a single point as well
EndDrawingCommitAny ==
    /\ isDrawing /\ currentStroke # Null
    /\ LET pts == currentStroke.points
           normalized == normalizePoints(pts)
           newStroke == [id |-> NewId(nextId + 1),
                         type |-> currentStroke.type,
                         points |-> normalized.points,
                         position |-> normalized.offset,
                         rotation |-> 0]
           pushed == pushToHistory(history, historyIndex,
                                   Append(strokes, newStroke))
           commit == Len(pts) > 0
       IN  /\ IF commit
              THEN /\ history' = pushed.history
                   /\ historyIndex' = pushed.historyIndex
                   /\ nextId' = nextId + 1
              ELSE UNCHANGED <<history, historyIndex, nextId>>
    /\ currentStroke' = Null
    /\ isDrawing' = FALSE
    /\ UNCHANGED <<selectedStrokeIds, selectionBox, interactionState>>

\* handleEnd, Finish Drawing
EndDrawing ==
    /\ isDrawing /\ currentStroke # Null
    /\ LET pts == currentStroke.points
           normalized == normalizePoints(pts)
           newStroke == [id |-> NewId(nextId + 1),
                         type |-> currentStroke.type,
                         points |-> normalized.points,
                         position |-> normalized.offset,
                         rotation |-> 0]
           pushed == pushToHistory(history, historyIndex,
                                   Append(strokes, newStroke))
           commit == Len(pts) > 1 \/ (currentStroke.type = "freehand" /\ Len(pts) > 0)
       IN  /\ IF commit
              THEN /\ history' = pushed.history
                   /\ historyIndex' = pushed.historyIndex
                   /\ nextId' = nextId + 1
              ELSE UNCHANGED <<history, historyIndex, nextId>>
    /\ currentStroke' = Null
    /\ isDrawing' = FALSE
    /\ UNCHANGED <<selectedStrokeIds, selectionBox, interactionState>>

\* handleEnd, Finish Transform/Select: the marquee's selection
BoxSelection(ss, box) ==
    {ss[i].id : i \in {j \in 1..Len(ss) :
        checkIntersection50Percent(getSelectionBoxBounds(box),
                                   getStrokeBounds(ss[j]))}}

EndSelect ==
    /\ ~(isDrawing /\ currentStroke # Null)
    /\ tool = "select"
    /\ IF interactionState.type # "idle"
       THEN LET pushed == pushToHistory(history, historyIndex, strokes)
            IN  /\ history' = pushed.history
                /\ historyIndex' = pushed.historyIndex
                /\ interactionState' = IdleInteraction
                /\ UNCHANGED <<selectedStrokeIds, selectionBox>>
       ELSE IF selectionBox # Null
       THEN /\ selectedStrokeIds' = BoxSelection(strokes, selectionBox)
            /\ selectionBox' = Null
            /\ UNCHANGED <<history, historyIndex, interactionState>>
       ELSE UNCHANGED <<history, historyIndex, interactionState,
                        selectedStrokeIds, selectionBox>>
    /\ UNCHANGED <<currentStroke, isDrawing, nextId>>

\* handleEnd, Finish Eraser
EndEraser ==
    /\ ~(isDrawing /\ currentStroke # Null)
    /\ tool = "eraser"
    /\ IF isDrawing
       THEN LET pushed == pushToHistory(history, historyIndex, strokes)
            IN  /\ history' = pushed.history
                /\ historyIndex' = pushed.historyIndex
       ELSE UNCHANGED <<history, historyIndex>>
    /\ isDrawing' = FALSE
    /\ UNCHANGED <<currentStroke, selectedStrokeIds, selectionBox,
                   interactionState, nextId>>

\* handleEnd with no branch taken: a drawing tool with no stroke in progress
EndNone ==
    /\ ~(isDrawing /\ currentStroke # Null)
    /\ tool \notin {"select", "eraser"}
    /\ UNCHANGED <<history, historyIndex, currentStroke, isDrawing,
                   selectedStrokeIds, selectionBox, interactionState, nextId>>

\* handleEnd: onMouseUp, onMouseLeave, onTouchEnd
handleEnd ==
    /\ pressed' = FALSE
    /\ \/ EndDrawing
       \/ EndSelect
       \/ EndEraser
       \/ EndNone
    /\ gesture' = EndGesture
    /\ UNCHANGED <<tool, events>>

\* setCurrentTool: a toolbar button or a keyboard shortcut
SetTool(t) ==
    /\ Tick
    /\ t # tool
    /\ tool' = t
    /\ gesture' = IF gesture.phase = "active"
                  THEN [gesture EXCEPT !.plain = FALSE] ELSE NoGesture
    /\ UNCHANGED <<history, historyIndex, currentStroke, isDrawing,
                   selectedStrokeIds, selectionBox, interactionState, nextId,
                   pressed>>

\* BlackboardRef.undo, from the toolbar: the pointer is not on the canvas,
\* and the button is disabled while canUndo is false
Undo ==
    /\ Tick
    /\ ~pressed
    /\ canUndo(history, historyIndex)
    /\ historyIndex' = undo(history, historyIndex).historyIndex
    /\ gesture' = IF gesture.phase = "done"
                  THEN [gesture EXCEPT !.phase = "undone"] ELSE NoGesture
    /\ UNCHANGED <<tool, history, currentStroke, isDrawing, selectedStrokeIds,
                   selectionBox, interactionState, nextId, pressed>>

\* BlackboardRef.redo, from the toolbar; the button is disabled while canRedo
\* is false
Redo ==
    /\ Tick
    /\ ~pressed
    /\ canRedo(history, historyIndex)
    /\ historyIndex' = redo(history, historyIndex).historyIndex
    /\ gesture' = IF gesture.phase = "undone"
                  THEN [gesture EXCEPT !.phase = "redone"] ELSE NoGesture
    /\ UNCHANGED <<tool, history, currentStroke, isDrawing, selectedStrokeIds,
                   selectionBox, interactionState, nextId, pressed>>

\* BlackboardRef.clear, from the toolbar
Clear ==
    /\ Tick
    /\ ~pressed
    /\ history' = clear(history, historyIndex).history
    /\ historyIndex' = clear(history, historyIndex).historyIndex
    /\ selectedStrokeIds' = {}
    /\ gesture' = [NoGesture EXCEPT !.kind = "clear", !.phase = "done",
                                    !.before = strokes,
                                    !.beforeLen = Len(history),
                                    !.beforeIdx = historyIndex,
                                    !.after = <<>>, !.plain = Quiet,
                                    !.sel = selectedStrokeIds]
    /\ UNCHANGED <<tool, currentStroke, isDrawing, selectionBox,
                   interactionState, nextId, pressed>>

\* deleteSelected overwriting the current snapshot instead of pushing
DeleteSelectedInPlace ==
    /\ selectedStrokeIds # {}
    /\ Tick
    /\ LET remaining == SelectSeq(strokes,
                             LAMBDA s : s.id \notin selectedStrokeIds)
           updated == updateCurrentHistory(history, historyIndex, remaining)
       IN  /\ history' = updated.history
           /\ historyIndex' = updated.historyIndex
    /\ selectedStrokeIds' = {}
    /\ gesture' = IF gesture.phase = "active"
                  THEN [gesture EXCEPT !.plain = FALSE] ELSE NoGesture
    /\ UNCHANGED <<tool, currentStroke, isDrawing, selectionBox,
                   interactionState, nextId, pressed>>

\* BlackboardRef.deleteSelected, from the keyboard; with nothing selected it
\* returns at once and no state changes
DeleteSelected ==
    /\ selectedStrokeIds # {}
    /\ Tick
    /\ LET remaining == SelectSeq(strokes,
                             LAMBDA s : s.id \notin selectedStrokeIds)
           pushed == pushToHistory(history, historyIndex, remaining)
       IN  /\ history' = pushed.history
           /\ historyIndex' = pushed.historyIndex
    /\ selectedStrokeIds' = {}
    /\ gesture' = IF gesture.phase = "active"
                  THEN [gesture EXCEPT !.plain = FALSE] ELSE NoGesture
    /\ UNCHANGED <<tool, currentStroke, isDrawing, selectionBox,
                   interactionState, nextId, pressed>>

Next ==
    \/ \E coords \in Positions : handleStart(coords)
    \/ \E coords \in Positions : handleMove(coords)
    \/ MoveNone
    \/ handleEnd
    \/ \E t \in Tools : SetTool(t)
    \/ Undo
    \/ Redo
    \/ Clear
    \/ DeleteSelected

Spec == Init /\ [][Next]_vars

-----------------------------------------------------------------------------
(* The history manager alone: any sequence of push, updateCurrentSlot,     *)
(* undo, redo and clear.  nextId counts the snapshots pushed, events the   *)
(* steps from the first step that is not a push, gesture.kind names the    *)
(* last operation.                                                         *)

\* the n-th snapshot pushed: one single-point freehand stroke at (n, n)
Snap(n) ==
    << [id |-> NewId(n), type |-> "freehand", points |-> <<Pt(0, 0)>>,
        position |-> Pt(n, n), rotation |-> 0] >>

LastOp(op) == [NoGesture EXCEPT !.kind = op]

HistoryFrame ==
    UNCHANGED <<tool, currentStroke, isDrawing, selectedStrokeIds,
                selectionBox, interactionState, pressed>>

HPush ==
    /\ nextId < MaxPush
    /\ IF events = 0 THEN UNCHANGED events
       ELSE events < MaxMoves /\ events' = events + 1
    /\ nextId' = nextId + 1
    /\ history' = pushToHistory(history, historyIndex, Snap(nextId + 1)).history
    /\ historyIndex' =
           pushToHistory(history, historyIndex, Snap(nextId + 1)).historyIndex
    /\ gesture' = LastOp("push")
    /\ HistoryFrame

HUpdate ==
    /\ events < MaxMoves
    /\ events' = events + 1
    /\ history' = updateCurrentHistory(history, historyIndex, Snap(0)).history
    /\ historyIndex' =
           updateCurrentHistory(history, historyIndex, Snap(0)).historyIndex
    /\ gesture' = LastOp("update")
    /\ UNCHANGED nextId
    /\ HistoryFrame

HUndo ==
    /\ events < MaxMoves
    /\ events' = events + 1
    /\ history' = undo(history, historyIndex).history
    /\ historyIndex' = undo(history, historyIndex).historyIndex
    /\ gesture' = LastOp("undo")
    /\ UNCHANGED nextId
    /\ HistoryFrame

HRedo ==
    /\ events < MaxMoves
    /\ events' = events + 1
    /\ history' = redo(history, historyIndex).history
    /\ historyIndex' = redo(history, historyIndex).historyIndex
    /\ gesture' = LastOp("redo")
    /\ UNCHANGED nextId
    /\ HistoryFrame

HClear ==
    /\ events < MaxMoves
    /\ events' = events + 1
    /\ history' = clear(history, historyIndex).history
    /\ historyIndex' = clear(history, historyIndex).historyIndex
    /\ gesture' = LastOp("clear")
    /\ UNCHANGED nextId
    /\ HistoryFrame

HistoryNext == HPush \/ HUpdate \/ HUndo \/ HRedo \/ HClear

SpecHistory == Init /\ [][HistoryNext]_vars

-----------------------------------------------------------------------------
(* The select tool on a board that already holds two overlapping strokes:  *)
(* the state after two drawing gestures, a change to the select tool and,  *)
(* for a non-empty selection, a selection box drawn around one stroke or   *)
(* both.  events holds the two pointer-downs that drew the strokes, nextId *)
(* counts the strokes drawn from there on.                                 *)

\* the stroke handleEnd commits for a two-point stroke drawn from a to b
Drawn(id, type, a, b) ==
    [id |-> id, type |-> type,
     points |-> normalizePoints(<<a, b>>).points,
     position |-> normalizePoints(<<a, b>>).offset,
     rotation |-> 0]

\* a rect with bounds (20, 60, 60, 40) and a line across its top and bottom
\* edges with bounds (30, 50, 14, 60)
BoardRect == Drawn("a", "rect", At(20, 60), At(80, 100))
BoardLine == Drawn("b", "freehand", At(30, 50), At(44, 110))
Boards == {<<BoardRect, BoardLine>>, <<BoardLine, BoardRect>>}

\* the history after drawing the strokes of board one after the other
HistoryOf(board) == [n \in 1..(Len(board) + 1) |-> SubSeq(board, 1, n - 1)]

\* (32, 60): on both strokes, on no handle; (26, 60): on both strokes, in
\* range of the rect's nw handle; (80, 80): on the rect only, its e handle;
\* (35, 80): on the line only, in range of its e handle; (50, 30): the
\* rect's rot handle, on no stroke; (110, 140): on nothing
SelectPositions ==
    {At(32, 60), At(26, 60), At(80, 80), At(35, 80), At(50, 30), At(110, 140)}

InitSelect ==
    /\ tool = "select"
    /\ \E board \in Boards :
          /\ history = HistoryOf(board)
          /\ historyIndex = Len(board)
          /\ selectedStrokeIds \in SUBSET Ids(board)
    /\ currentStroke = Null
    /\ isDrawing = FALSE
    /\ selectionBox = Null
    /\ interactionState = IdleInteraction
    /\ nextId = 0
    /\ pressed = FALSE
    /\ events = 2
    /\ gesture = NoGesture

NextSelect ==
    \/ \E coords \in SelectPositions : handleStart(coords)
    \/ \E coords \in SelectPositions : handleMove(coords)
    \/ MoveNone
    \/ handleEnd
    \/ \E t \in Tools : SetTool(t)
    \/ Undo
    \/ Redo
    \/ Clear
    \/ DeleteSelected

SpecSelect == InitSelect /\ [][NextSelect]_vars

-----------------------------------------------------------------------------
(* The select tool on a board of one stroke that a click has selected: the *)
(* state after a drawing gesture, a change to the select tool and a        *)
(* pointer-down and pointer-up on the stroke.  events holds these two      *)
(* pointer-downs.                                                          *)

\* strokes with bounds (0, 0, 100, 50): a rect, a circle, an arrow along the
\* diagonal and a freehand line; a horizontal arrow with bounds
\* (0, 25, 100, 0); a rect 8 pixels wide with bounds (146, 100, 8, 60)
ResizeBoards ==
    {<<Drawn("a", "rect", At(0, 0), At(100, 50))>>,
     <<Drawn("a", "circle", At(0, 0), At(100, 50))>>,
     <<Drawn("a", "arrow", At(0, 0), At(100, 50))>>,
     <<Drawn("a", "freehand", At(0, 0), At(100, 50))>>,
     <<Drawn("a", "arrow", At(0, 25), At(100, 25))>>,
     <<Drawn("a", "rect", At(146, 100), At(154, 160))>>}

\* the history after drawing the stroke and clicking it: the pointer-up of
\* the click pushes the unchanged list
ClickedHistory(board) == <<<<>>, board, board>>

\* the handles se, n, s, e and w of the bounds (0, 0, 100, 50); (120, 60);
\* (150, 90.5), a touch position in range of the n handle of the narrow
\* rect and of no corner
ResizePositions ==
    {At(100, 50), At(50, 0), At(50, 50), At(100, 25), At(0, 25), At(120, 60),
     Pt(Px(150), Px(90) + Sub \div 2)}

InitResize ==
    /\ tool = "select"
    /\ \E board \in ResizeBoards :
          /\ history = ClickedHistory(board)
          /\ historyIndex = 2
          /\ selectedStrokeIds = Ids(board)
    /\ currentStroke = Null
    /\ isDrawing = FALSE
    /\ selectionBox = Null
    /\ interactionState = IdleInteraction
    /\ nextId = 0
    /\ pressed = FALSE
    /\ events = 2
    /\ gesture = NoGesture

NextResize ==
    \/ \E coords \in ResizePositions : handleStart(coords)
    \/ \E coords \in ResizePositions : handleMove(coords)
    \/ MoveNone
    \/ handleEnd
    \/ \E t \in Tools : SetTool(t)
    \/ Undo
    \/ Redo
    \/ Clear
    \/ DeleteSelected

SpecResize == InitResize /\ [][NextResize]_vars

-----------------------------------------------------------------------------
(* A selection box in progress over a board of one stroke: the state after *)
(* a drawing gesture, a change to the select tool and a pointer-down on a  *)
(* point that hits nothing.  events holds these three events.              *)

\* strokes with bounds (20, 20, 100, 50): a rect, a circle and an arrow
\* along the diagonal; a horizontal arrow with bounds (20, 45, 100, 0); a
\* vertical chalk line with bounds (70, 20, 0, 50)
BoxBoards ==
    {<<Drawn("a", "rect", At(20, 20), At(120, 70))>>,
     <<Drawn("a", "circle", At(20, 20), At(120, 70))>>,
     <<Drawn("a", "arrow", At(120, 70), At(20, 20))>>,
     <<Drawn("a", "arrow", At(20, 45), At(120, 45))>>,
     <<Drawn("a", "freehand", At(70, 20), At(70, 70))>>}

\* corners of boxes that cover 0, 40, 50, 60 and 100 per cent of the bounds
\* (20, 20, 100, 50), from either side
BoxCorners ==
    {At(0, 0), At(140, 0), At(0, 90), At(140, 90), At(60, 90), At(70, 90),
     At(80, 90), At(60, 0), At(70, 0), At(140, 45)}

InitBox ==
    /\ tool = "select"
    /\ \E board \in BoxBoards :
          /\ history = <<<<>>, board>>
          /\ \E coords \in BoxCorners :
                /\ \A i \in 1..Len(board) :
                       ~hitTestStroke(board[i], coords, Px(HitThreshold))
                /\ selectionBox = [start |-> coords, current |-> coords]
    /\ historyIndex = 1
    /\ selectedStrokeIds = {}
    /\ currentStroke = Null
    /\ isDrawing = FALSE
    /\ interactionState = IdleInteraction
    /\ nextId = 0
    /\ pressed = TRUE
    /\ events = 3
    /\ gesture = [NoGesture EXCEPT !.kind = "box", !.phase = "active",
                                   !.before = strokes, !.beforeLen = 2,
                                   !.beforeIdx = 1, !.plain = TRUE]

NextBox ==
    \/ \E coords \in BoxCorners : handleMove(coords)
    \/ handleEnd

SpecBox == InitBox /\ [][NextBox]_vars

-----------------------------------------------------------------------------

(* A pointer-down with the select tool or the eraser on a board of one     *)
(* selected stroke, unrotated or rotated by a quarter turn: the state      *)
(* after a drawing gesture, a change to the select tool, a click on the    *)
(* stroke, for a rotated stroke a Rotating gesture from the rot handle to  *)
(* the right of the centre, and for the eraser a change of tool.  events   *)
(* leaves room for one more pointer-down.                                  *)

\* strokes with bounds (100, 100, 100, 50): a rect, a circle, an arrow
\* along the diagonal and a chalk line; rects with bounds
\* (100, 100, 19, 19), (100, 100, 36, 15), (146, 100, 8, 60) and
\* (100, 100, 20, 40)
HitBoards ==
    {<<Drawn("a", "rect", At(100, 100), At(200, 150))>>,
     <<Drawn("a", "circle", At(100, 100), At(200, 150))>>,
     <<Drawn("a", "arrow", At(100, 100), At(200, 150))>>,
     <<Drawn("a", "freehand", At(200, 150), At(100, 100))>>,
     <<Drawn("a", "rect", At(100, 100), At(119, 119))>>,
     <<Drawn("a", "rect", At(100, 100), At(136, 115))>>,
     <<Drawn("a", "rect", At(146, 100), At(154, 160))>>,
     <<Drawn("a", "rect", At(100, 100), At(120, 140))>>}

\* the board with its stroke rotated by r quarter turns
Turned(board, r) == [i \in 1..Len(board) |-> [board[i] EXCEPT !.rotation = r]]

\* the history after drawing the stroke, clicking it and rotating it by r
\* quarter turns: the preview of the rotation overwrites the slot that the
\* click pushed, the pointer-up pushes the rotated list again
TurnedHistory(board, r) ==
    IF r = 0 THEN ClickedHistory(board)
    ELSE <<<<>>, board, Turned(board, r), Turned(board, r)>>

\* for the bounds (100, 100, 100, 50): the nine handles, (210, 150) at 10
\* pixels from the se handle, (150, 175) where the e handle is after a
\* quarter turn, the centre (150, 125), and (98, 125), (202, 125),
\* (150, 98), (150, 152), (125, 98), (98, 98) at 2 pixels outside the
\* borders
WidePositions ==
    {At(150, 70), At(100, 100), At(200, 100), At(200, 150), At(100, 150),
     At(150, 100), At(150, 150), At(200, 125), At(100, 125), At(210, 150),
     At(150, 175), At(150, 125), At(98, 125), At(202, 125), At(150, 98),
     At(150, 152), At(125, 98), At(98, 98)}

\* for the bounds (100, 100, 19, 19): the centre (109.5, 109.5), in range
\* of n, s, e and w and of no corner; (109.5, 110.5), out of range of n;
\* the n handle (109.5, 100); (109.5, 119), the e handle after a quarter
\* turn.  For the bounds (100, 100, 36, 15): the n handle (118, 100) and
\* (118, 125.5), the e handle after a quarter turn.  For the bounds
\* (100, 100, 20, 40): the centre (110, 120), at 10 pixels from the
\* borders and from the e and w handles; (98, 110) and (110, 142) at 2
\* pixels outside the borders
SmallPositions ==
    {Pt(Px(109) + Sub \div 2, Px(109) + Sub \div 2),
     Pt(Px(109) + Sub \div 2, Px(110) + Sub \div 2),
     Pt(Px(109) + Sub \div 2, Px(100)), Pt(Px(109) + Sub \div 2, Px(119)),
     At(118, 100), Pt(Px(118), Px(125) + Sub \div 2),
     At(110, 120), At(98, 110), At(110, 142)}

\* for the bounds (146, 100, 8, 60): (150, 100) in range of nw, ne and n;
\* (158, 100) of ne and n; (150, 160) of se, sw and s; (142, 160) of sw and
\* s; (150, 130) of e and w; (150, 90.5) of n only, at 9.5 pixels;
\* (150, 134), the e handle after a quarter turn
NarrowPositions ==
    {At(158, 100), At(150, 160), At(142, 160), At(150, 130),
     Pt(Px(150), Px(90) + Sub \div 2), At(150, 134)}

HitPositions == WidePositions \cup SmallPositions \cup NarrowPositions

InitHit ==
    /\ tool \in {"select", "eraser"}
    /\ \E board \in HitBoards : \E r \in {0, 1} :
          /\ history = TurnedHistory(board, r)
          /\ historyIndex = Len(history) - 1
          /\ selectedStrokeIds = Ids(board)
    /\ currentStroke = Null
    /\ isDrawing = FALSE
    /\ selectionBox = Null
    /\ interactionState = IdleInteraction
    /\ nextId = 0
    /\ pressed = FALSE
    /\ events = MaxEvents - 1
    /\ gesture = NoGesture

NextHit ==
    \/ \E coords \in HitPositions : handleStart(coords)
    \/ handleEnd

SpecHit == InitHit /\ [][NextHit]_vars

-----------------------------------------------------------------------------

(* A chalk stroke in progress on the empty board, with points whose        *)
(* coordinates reach beyond 2^MaxBits units: the state after a             *)
(* pointer-down and up to two pointer-moves.  events holds the             *)
(* pointer-down.                                                           *)

\* coordinates: two below 2^MaxBits and two, close to each other, above it
NormCoords == {3, 5, 600, 602}

NormPoints == {Pt(x, y) : x \in NormCoords, y \in {5, 602}}

\* the point sequences of one to three points
NormInputs ==
    {<<a>> : a \in NormPoints}
        \cup {<<a, b>> : a \in NormPoints, b \in NormPoints}
        \cup {<<a, b, c>> : a \in NormPoints, b \in NormPoints, c \in NormPoints}

InitNormalize ==
    /\ tool = "chalk"
    /\ history = << <<>> >>
    /\ historyIndex = 0
    /\ \E points \in NormInputs :
          currentStroke = [type |-> "freehand", points |-> points]
    /\ isDrawing = TRUE
    /\ selectedStrokeIds = {}
    /\ selectionBox = Null
    /\ interactionState = IdleInteraction
    /\ nextId = 0
    /\ pressed = TRUE
    /\ events = 1
    /\ gesture = [NoGesture EXCEPT !.kind = "draw", !.phase = "active",
                                   !.beforeLen = 1, !.plain = TRUE]

NextNormalize == handleEnd

SpecNormalize == InitNormalize /\ [][NextNormalize]_vars

-----------------------------------------------------------------------------

(* A gesture during which the tool has been changed, on the board of two   *)
(* strokes: the state after the two drawing gestures, a pointer-down with  *)
(* the select tool on a stroke (a drag begins) or with the eraser on a     *)
(* point that hits nothing, and a key press that makes another tool        *)
(* current while the button is down.  events leaves room for one more      *)
(* tool change or pointer-down.                                            *)

\* a drag in progress that began at p on the board with nothing selected
DragBegun(board, p) ==
    LET hit == {i \in 1..Len(board) :
                   hitTestStroke(board[i], p, Px(HitThreshold))}
    IN  /\ hit # {}
        /\ tool \in Tools \ {"select"}
        /\ selectedStrokeIds = {board[SetMax(hit)].id}
        /\ interactionState =
               [type |-> "drag", handle |-> "null", startPos |-> p,
                initialStrokes |-> board]
        /\ isDrawing = FALSE
        /\ gesture = [NoGesture EXCEPT !.kind = "drag", !.phase = "active",
                                       !.before = board,
                                       !.beforeLen = Len(board) + 1,
                                       !.beforeIdx = Len(board), !.start = p]

\* an erase in progress that began at p, where no stroke of the board is
EraseBegun(board, p) ==
    /\ \A i \in 1..Len(board) : ~hitTestStroke(board[i], p, Px(HitThreshold))
    /\ tool \in Tools \ {"eraser"}
    /\ selectedStrokeIds = {}
    /\ interactionState = IdleInteraction
    /\ isDrawing = TRUE
    /\ gesture = [NoGesture EXCEPT !.kind = "erase", !.phase = "active",
                                   !.before = board,
                                   !.beforeLen = Len(board) + 1,
                                   !.beforeIdx = Len(board)]

InitInterrupted ==
    /\ \E board \in Boards :
          /\ history = HistoryOf(board)
          /\ historyIndex = Len(board)
          /\ \E p \in SelectPositions :
                DragBegun(board, p) \/ EraseBegun(board, p)
    /\ currentStroke = Null
    /\ selectionBox = Null
    /\ nextId = 0
    /\ pressed = TRUE
    /\ events = MaxEvents - 1

NextInterrupted ==
    \/ \E coords \in SelectPositions : handleStart(coords)
    \/ \E coords \in SelectPositions : handleMove(coords)
    \/ MoveNone
    \/ handleEnd
    \/ \E t \in Tools : SetTool(t)

SpecInterrupted == InitInterrupted /\ [][NextInterrupted]_vars

-----------------------------------------------------------------------------

(* Properties *)

TransformKinds == {"drag", "resize", "rotate", "erase"}

\* the controller is Idle: not drawing or erasing, no selection box, no
\* drag, resize or rotation in progress
Idle ==
    /\ ~isDrawing
    /\ selectionBox = Null
    /\ interactionState.type = "idle"

\* C1: after a completed drag, resize, rotate or erase gesture, one undo makes
\* the current stroke list equal to the list that was current immediately
\* before the gesture's pointer-down.
C1_UndoRestoresBeforeGesture ==
    (/\ gesture.kind \in TransformKinds
     /\ gesture.plain
     /\ gesture.phase = "undone")
        => strokes = gesture.before

\* C2: a completed drag, resize, rotate or erase gesture that starts at the
\* last index with fewer than 50 snapshots leaves the history exactly one
\* snapshot longer than it was at pointer-down.
C2_OneSnapshotPerGesture ==
    (/\ gesture.kind \in TransformKinds
     /\ gesture.plain
     /\ gesture.phase = "done"
     /\ gesture.beforeIdx = gesture.beforeLen - 1
     /\ gesture.beforeLen < HistoryCap)
        => Len(history) = gesture.beforeLen + 1

\* C3: in every state reachable by push, updateCurrentSlot, undo, redo and
\* clear the history holds between 1 and 50 snapshots and the index is
\* between 0 and length - 1.
C3_HistoryBounded ==
    /\ Len(history) >= 1
    /\ Len(history) <= 50
    /\ historyIndex >= 0
    /\ historyIndex <= Len(history) - 1

C3_Witness ==
    /\ gesture.kind = "push"
    /\ nextId > 50
    /\ Len(history) = 50
    /\ historyIndex = 49

\* the snapshot the n-th push stored; the 0-th is the initial empty board
PushedSnap(n) == IF n = 0 THEN <<>> ELSE Snap(n)

\* C4: push(s) drops every snapshot after the current index, appends s,
\* evicts the oldest snapshot if the length would exceed 50 and leaves
\* index = length - 1 <= 49 with s current, so that redo is then a no-op;
\* n pushes in a row from the initial state leave the last min(n + 1, 50)
\* snapshots in order (60 pushes: length 50, index 49, the last 50 pushed).
C4_PushStep ==
    gesture'.kind = "push" =>
        LET s == Snap(nextId')
            kept == SubSeq(history, 1, historyIndex + 1)
            full == Append(kept, s)
            first == nextId' - Len(history')
        IN  /\ history' = IF Len(full) > 50 THEN Tail(full) ELSE full
            /\ historyIndex' = Len(history') - 1
            /\ historyIndex' <= 49
            /\ strokes' = s
            /\ redo(history', historyIndex').historyIndex = historyIndex'
            /\ events' = 0 =>
                  /\ Len(history') = Min(nextId' + 1, 50)
                  /\ \A j \in 1..Len(history') :
                         history'[j] = PushedSnap(first + j)
            /\ (events' = 0 /\ nextId' = 60) =>
                  /\ Len(history') = 50
                  /\ historyIndex' = 49
                  /\ \A j \in 1..50 : history'[j] = Snap(10 + j)

C4_Push == [][C4_PushStep]_vars

C4_Witness ==
    /\ gesture.kind = "push"
    /\ events = 0
    /\ nextId = 60
    /\ Len(history) = 50

\* C5: undo at index 0 and redo at index length - 1 change nothing; otherwise
\* undo decrements and redo increments the index by exactly 1; neither
\* changes the number or the contents of the stored snapshots.
C5_UndoRedoStep ==
    /\ gesture'.kind = "undo" =>
          /\ history' = history
          /\ historyIndex' = IF historyIndex = 0 THEN 0 ELSE historyIndex - 1
    /\ gesture'.kind = "redo" =>
          /\ history' = history
          /\ historyIndex' = IF historyIndex = Len(history) - 1
                             THEN historyIndex ELSE historyIndex + 1

C5_UndoRedo == [][C5_UndoRedoStep]_vars

C5_Witness ==
    /\ gesture.kind = "redo"
    /\ events = 3
    /\ Len(history) > 1
    /\ historyIndex = Len(history) - 1

\* C6: clear() has exactly the effect of push([]): afterwards the current
\* stroke list and the selection set are empty, and one undo restores the
\* stroke list that was current before the clear.
C6_ClearStep ==
    /\ (gesture'.kind = "clear" /\ gesture'.phase = "done") =>
          /\ history' = pushToHistory(history, historyIndex, <<>>).history
          /\ historyIndex' =
                 pushToHistory(history, historyIndex, <<>>).historyIndex
          /\ strokes' = <<>>
          /\ selectedStrokeIds' = {}
    /\ (gesture.kind = "clear" /\ gesture.phase = "done"
            /\ gesture'.phase = "undone") =>
          strokes' = gesture.before

C6_ClearIsPushEmpty == [][C6_ClearStep]_vars

C6_Witness ==
    /\ gesture.kind = "clear"
    /\ gesture.phase = "undone"
    /\ gesture.before # <<>>
    /\ strokes = gesture.before

\* C7: after a drawing gesture that commits a stroke, one undo yields the
\* stroke list as it was before the gesture, and one redo after that yields
\* the committed list again: the list before the gesture followed by the new
\* stroke, unchanged.
C7_DrawUndoRedo ==
    (gesture.kind = "draw" /\ gesture.committed) =>
        /\ gesture.phase \in {"done", "redone"} =>
              /\ strokes = gesture.after
              /\ Len(strokes) = Len(gesture.before) + 1
              /\ SubSeq(strokes, 1, Len(gesture.before)) = gesture.before
        /\ gesture.phase = "undone" => strokes = gesture.before

C7_Witness ==
    /\ gesture.kind = "draw"
    /\ gesture.committed
    /\ gesture.phase = "redone"
    /\ Len(strokes) = Len(gesture.before) + 1
    /\ Len(strokes[Len(strokes)].points) = 2

\* C8: in every reachable state the selection set is a subset of the ids of
\* the strokes in the current snapshot.
C8_SelectionWithinSnapshot == selectedStrokeIds \subseteq Ids(strokes)

\* C9: in every reachable state at most one of Drawing/erasing (isDrawing),
\* SelectingBox (selectionBox set) and Dragging/Resizing/Rotating
\* (interactionState not idle) is active.
C9_OneInteractionState ==
    /\ ~(isDrawing /\ selectionBox # Null)
    /\ ~(isDrawing /\ interactionState.type # "idle")
    /\ ~(selectionBox # Null /\ interactionState.type # "idle")

\* C10: a pointer-up, or the pointer leaving the canvas, ends the gesture in
\* progress whatever tool is current: afterwards the controller is Idle, and
\* a drag, resize, rotate or erase gesture has pushed its result.
C10_PointerUpEndsGesture ==
    (gesture.phase = "done" /\ gesture.kind # "clear") =>
        /\ Idle
        /\ gesture.kind \in TransformKinds =>
              /\ Len(history) > gesture.beforeLen
              /\ historyIndex = Len(history) - 1

\* a pointer-up (or leave) step that ends a stroke in progress
DrawEnds == isDrawing /\ currentStroke # Null /\ currentStroke' = Null

\* C11: on pointer-up in Drawing a stroke with at least 2 points (1 for
\* freehand) is pushed as one new snapshot: the previous stroke list with the
\* new stroke appended last, its points shifted so that the minimum x and y
\* are 0, its position the minimum raw x and y, its rotation 0; every
\* stroke that existed before is unchanged and keeps its place.
C11_CommitStep ==
    (/\ DrawEnds
     /\ \/ Len(currentStroke.points) >= 2
        \/ currentStroke.type = "freehand" /\ Len(currentStroke.points) >= 1) =>
        LET pts == currentStroke.points
            minX == SetMin({pts[i].x : i \in 1..Len(pts)})
            minY == SetMin({pts[i].y : i \in 1..Len(pts)})
            kept == SubSeq(history, 1, historyIndex + 1)
            new == strokes'[Len(strokes')]
        IN  /\ Len(strokes') = Len(strokes) + 1
            /\ SubSeq(strokes', 1, Len(strokes)) = strokes
            /\ new.type = currentStroke.type
            /\ new.rotation = 0
            /\ new.position = Pt(minX, minY)
            /\ new.points = [i \in 1..Len(pts) |->
                                Pt(pts[i].x - minX, pts[i].y - minY)]
            /\ SetMin({new.points[i].x : i \in 1..Len(pts)}) = 0
            /\ SetMin({new.points[i].y : i \in 1..Len(pts)}) = 0
            /\ new.id \notin Ids(strokes)
            /\ Len(kept) < 50 => history' = Append(kept, strokes')
            /\ historyIndex' = Len(history') - 1

C12_DiscardStep ==
    (/\ DrawEnds
     /\ currentStroke.type \in {"rect", "circle", "arrow"}
     /\ Len(currentStroke.points) < 2) =>
        /\ history' = history
        /\ historyIndex' = historyIndex
        /\ Idle'

C12_ShortShapeDiscarded == [][C12_DiscardStep]_vars

\* C13: immediately after a pointer-down with tool chalk, rect, circle or
\* arrow, and immediately after clear, the selection set is empty.
C13_Step ==
    /\ (~pressed /\ pressed' /\ tool \in DrawingTools) =>
          selectedStrokeIds' = {}
    /\ (events' # events /\ gesture'.kind = "clear") =>
          selectedStrokeIds' = {}

C13_SelectionEmptied == [][C13_Step]_vars

\* a stroke in progress whose pointer-down found two strokes selected
C13_Witness ==
    /\ gesture.kind = "draw"
    /\ gesture.phase = "active"
    /\ Cardinality(gesture.sel) = 2
    /\ isDrawing
    /\ currentStroke # Null
    /\ selectedStrokeIds = {}

HandleNames == {"rot", "nw", "ne", "se", "sw", "n", "s", "e", "w"}

\* the handles of stroke within handle range (10 pixels) of coords
HandlesNear(stroke, coords) ==
    IF HasNaN(stroke.points) THEN {}
    ELSE {h \in HandleNames :
             distanceSq(Double(coords), getHandleCoords(stroke)[h])
                 < (2 * Px(10)) * (2 * Px(10))}

\* the indices of the strokes of ss whose body coords hits
BodiesHit(ss, coords) ==
    {i \in 1..Len(ss) : hitTestStroke(ss[i], coords, Px(HitThreshold))}

\* C14: on pointer-down with tool = select and exactly one stroke selected,
\* a pointer within handle range of one of that stroke's handles makes the
\* controller enter Rotating (handle rot) or Resizing (any other handle) and
\* leaves the selection unchanged, even when the point also hits the body of
\* that or of another stroke.
C14_Step ==
    \A coords \in SelectPositions :
        (/\ tool = "select"
         /\ ~pressed
         /\ pressed'
         /\ Cardinality(selectedStrokeIds) = 1
         /\ handleStart(coords)) =>
            LET id == CHOOSE i \in selectedStrokeIds : TRUE
                stroke == FindStroke(strokes, id)
                near == IF stroke = Null THEN {}
                        ELSE HandlesNear(stroke, coords)
            IN  near # {} =>
                    /\ interactionState'.type =
                           IF "rot" \in near THEN "rotate" ELSE "resize"
                    /\ interactionState'.handle \in near
                    /\ interactionState'.startPos = coords
                    /\ selectedStrokeIds' = selectedStrokeIds
                    /\ selectionBox' = selectionBox

C14_HandleTakesPriority == [][C14_Step]_vars

\* Resizing began at a point that is on the body of the selected stroke and
\* of the other stroke as well
C14_Witness ==
    /\ pressed
    /\ tool = "select"
    /\ interactionState.type = "resize"
    /\ Cardinality(selectedStrokeIds) = 1
    /\ Len(interactionState.initialStrokes) = 2
    /\ BodiesHit(interactionState.initialStrokes, interactionState.startPos)
           = {1, 2}

\* no handle is hit at coords: the handles are tested only when exactly one
\* stroke is selected
NoHandleHit(coords) ==
    \/ Cardinality(selectedStrokeIds) # 1
    \/ LET stroke == FindStroke(strokes, CHOOSE i \in selectedStrokeIds : TRUE)
       IN  stroke = Null \/ HandlesNear(stroke, coords) = {}

\* C15: on pointer-down with tool = select and no handle hit, a pointer on
\* the body of a stroke of the selection set makes the controller enter
\* Dragging with the whole selection set unchanged, even when an unselected
\* stroke higher in z-order is hit at the same point.
C15_Step ==
    \A coords \in SelectPositions :
        (/\ tool = "select"
         /\ ~pressed
         /\ pressed'
         /\ handleStart(coords)
         /\ NoHandleHit(coords)
         /\ \E i \in BodiesHit(strokes, coords) :
                strokes[i].id \in selectedStrokeIds) =>
            /\ interactionState'.type = "drag"
            /\ interactionState'.startPos = coords
            /\ interactionState'.initialStrokes = strokes
            /\ selectedStrokeIds' = selectedStrokeIds
            /\ selectionBox' = selectionBox
            /\ strokes' = strokes

C15_SelectedStrokeFirst == [][C15_Step]_vars

\* Dragging began with only the lower stroke selected, at a point that is
\* on the body of both strokes
C15_Witness ==
    /\ pressed
    /\ interactionState.type = "drag"
    /\ gesture.phase = "active"
    /\ gesture.start = interactionState.startPos
    /\ Len(interactionState.initialStrokes) = 2
    /\ selectedStrokeIds = {interactionState.initialStrokes[1].id}
    /\ BodiesHit(interactionState.initialStrokes, interactionState.startPos)
           = {1, 2}

\* C16: on pointer-down with tool = select, no handle hit and no selected
\* stroke hit: if some stroke is hit, the selection becomes exactly the hit
\* stroke that is last in the stroke list and the controller enters
\* Dragging; if no stroke is hit, the selection becomes empty and the
\* controller enters SelectingBox with start = current = the pointer.
C16_Step ==
    \A coords \in SelectPositions :
        (/\ tool = "select"
         /\ ~pressed
         /\ pressed'
         /\ handleStart(coords)
         /\ NoHandleHit(coords)
         /\ \A i \in BodiesHit(strokes, coords) :
                strokes[i].id \notin selectedStrokeIds) =>
            LET hit == BodiesHit(strokes, coords)
            IN  IF hit # {}
                THEN /\ selectedStrokeIds' = {strokes[SetMax(hit)].id}
                     /\ interactionState'.type = "drag"
                     /\ interactionState'.startPos = coords
                     /\ selectionBox' = selectionBox
                     /\ strokes' = strokes
                ELSE /\ selectedStrokeIds' = {}
                     /\ selectionBox' = [start |-> coords, current |-> coords]
                     /\ interactionState' = interactionState
                     /\ strokes' = strokes

C16_TopmostOrBox == [][C16_Step]_vars

\* Dragging began with nothing selected at a point on the body of both
\* strokes, and the upper one is selected
C16_Witness ==
    /\ pressed
    /\ interactionState.type = "drag"
    /\ gesture.phase = "active"
    /\ gesture.sel = {}
    /\ gesture.start = interactionState.startPos
    /\ Len(interactionState.initialStrokes) = 2
    /\ selectedStrokeIds = {interactionState.initialStrokes[2].id}
    /\ BodiesHit(interactionState.initialStrokes, interactionState.startPos)
           = {1, 2}

\* C17: after a Dragging gesture with pointer-down at p0 and last pointer
\* position pn, whatever the moves in between, every selected stroke's
\* position is its position at pointer-down plus (pn - p0), its points,
\* rotation, type and id are unchanged, and every unselected stroke is
\* unchanged.
C17_Step ==
    (/\ gesture.kind = "drag"
     /\ gesture.phase = "active"
     /\ gesture.plain
     /\ interactionState.type = "drag"
     /\ gesture'.phase = "done") =>
        LET p0 == gesture.start
            pn == interactionState.startPos
            before == gesture.before
        IN  /\ Len(strokes') = Len(before)
            /\ \A i \in 1..Len(before) :
                   strokes'[i] =
                       IF before[i].id \in selectedStrokeIds
                       THEN [before[i] EXCEPT
                                !.position = Pt(@.x + (pn.x - p0.x),
                                                @.y + (pn.y - p0.y))]
                       ELSE before[i]

C17_DragTranslates == [][C17_Step]_vars

\* a completed drag that moved one stroke and had another, unselected one
\* to leave alone
C17_Witness ==
    /\ gesture.kind = "drag"
    /\ gesture.phase = "done"
    /\ gesture.plain
    /\ Len(strokes) = 2
    /\ Len(gesture.before) = 2
    /\ \E i \in 1..2 :
          /\ strokes[i].id \in selectedStrokeIds
          /\ strokes[i].position # gesture.before[i].position
    /\ \E i \in 1..2 :
          /\ strokes[i].id \notin selectedStrokeIds
          /\ strokes[i] = gesture.before[i]

\* a pointer-move at coords of a Resizing gesture on the one selected stroke
ResizeMove(coords) ==
    /\ tool = "select"
    /\ interactionState.type = "resize"
    /\ Cardinality(selectedStrokeIds) = 1
    /\ FindStroke(interactionState.initialStrokes,
                  CHOOSE i \in selectedStrokeIds : TRUE) # Null
    /\ FindStroke(strokes', CHOOSE i \in selectedStrokeIds : TRUE) # Null
    /\ handleMove(coords)

\* the stroke the Resizing gesture in progress began with
ResizeInitial ==
    FindStroke(interactionState.initialStrokes,
               CHOOSE i \in selectedStrokeIds : TRUE)

\* the resized stroke after the pointer-move
ResizeResult == FindStroke(strokes', CHOOSE i \in selectedStrokeIds : TRUE)

\* x and width of the bounds are numbers: no point has a NaN x
WidthDefined(stroke) ==
    \A i \in 1..Len(stroke.points) : ~stroke.points[i].nanx

\* y and height of the bounds are numbers: no point has a NaN y
HeightDefined(stroke) ==
    \A i \in 1..Len(stroke.points) : ~stroke.points[i].nany

\* C18: a resize gesture on a stroke of any type (freehand, rect, circle or
\* arrow) whose pointer displacement requests a width or a height below 10
\* leaves the stroke with unrotated-bounds width (respectively height)
\* exactly 10.
C18_Step ==
    \A coords \in ResizePositions :
        ResizeMove(coords) =>
            LET request == ResizeRequest(ResizeInitial, interactionState.handle,
                                         interactionState.startPos, coords)
                after == getUnrotatedBounds(ResizeResult)
            IN  /\ request.width < Px(10) =>
                       /\ WidthDefined(ResizeResult)
                       /\ after.width = Px(10)
                /\ request.height < Px(10) =>
                       /\ HeightDefined(ResizeResult)
                       /\ after.height = Px(10)

C18_ResizeClampsAnyType == [][C18_Step]_vars

\* the pointer-up that ends a Resizing gesture made of pointer events only
ResizeEnds ==
    /\ gesture.kind = "resize"
    /\ gesture.phase = "active"
    /\ gesture.plain
    /\ gesture'.phase = "done"

\* C19: for an unrotated rect or circle with unrotated bounds (x, y, w, h), a
\* resize gesture on the se handle with total pointer displacement (dx, dy),
\* w + dx >= 10 and h + dy >= 10, yields bounds (x, y, w + dx, h + dy), the
\* points [{0,0}, {w + dx, h + dy}] and the position (x, y); a rect with
\* corners (0, 0) and (100, 50) dragged by (+20, +10) ends with bounds
\* (0, 0, 120, 60).
C19_Step ==
    /\ \A coords \in ResizePositions :
          (/\ ResizeMove(coords)
           /\ interactionState.handle = "se"
           /\ ResizeInitial.type \in {"rect", "circle"}
           /\ ResizeInitial.rotation = 0) =>
              LET bounds == getUnrotatedBounds(ResizeInitial)
                  dx == coords.x - interactionState.startPos.x
                  dy == coords.y - interactionState.startPos.y
                  after == getUnrotatedBounds(ResizeResult)
              IN  /\ (bounds.width + dx >= Px(10)
                        /\ bounds.height + dy >= Px(10)) =>
                         /\ after.x = bounds.x
                         /\ after.y = bounds.y
                         /\ after.width = bounds.width + dx
                         /\ after.height = bounds.height + dy
                         /\ ResizeResult.points =
                                <<Pt(0, 0),
                                  Pt(bounds.width + dx, bounds.height + dy)>>
                         /\ ResizeResult.position = Pt(bounds.x, bounds.y)
                  /\ (/\ ResizeInitial.type = "rect"
                      /\ ResizeInitial.points = <<At(0, 0), At(100, 50)>>
                      /\ ResizeInitial.position = At(0, 0)
                      /\ dx = Px(20)
                      /\ dy = Px(10)) =>
                         /\ after.x = 0
                         /\ after.y = 0
                         /\ after.width = Px(120)
                         /\ after.height = Px(60)
    /\ ResizeEnds => strokes' = strokes

C19_SeResize == [][C19_Step]_vars

\* the rect with corners (0, 0) and (100, 50) after a resize gesture on its
\* se handle that ended 20 to the right and 10 below
C19_Witness ==
    /\ gesture.kind = "resize"
    /\ gesture.phase = "done"
    /\ gesture.plain
    /\ Len(gesture.before) = 1
    /\ gesture.before[1].type = "rect"
    /\ gesture.before[1].points = <<At(0, 0), At(100, 50)>>
    /\ gesture.before[1].position = At(0, 0)
    /\ Len(strokes) = 1
    /\ strokes[1].points = <<At(0, 0), At(120, 60)>>
    /\ strokes[1].position = At(0, 0)

\* C20: during Resizing of an unrotated rect, circle or arrow, dragging the
\* n or s handle leaves the bounds' x and width unchanged, and dragging the
\* e or w handle leaves the bounds' y and height unchanged, for every
\* pointer displacement.
C20_Step ==
    \A coords \in ResizePositions :
        (/\ ResizeMove(coords)
         /\ ResizeInitial.type \in {"rect", "circle", "arrow"}
         /\ ResizeInitial.rotation = 0) =>
            LET bounds == getUnrotatedBounds(ResizeInitial)
                after == getUnrotatedBounds(ResizeResult)
            IN  /\ interactionState.handle \in {"n", "s"} =>
                       /\ WidthDefined(ResizeResult)
                       /\ after.x = bounds.x
                       /\ after.width = bounds.width
                /\ interactionState.handle \in {"e", "w"} =>
                       /\ HeightDefined(ResizeResult)
                       /\ after.y = bounds.y
                       /\ after.height = bounds.height

C20_EdgeHandlesOneAxis == [][C20_Step]_vars

\* ss with the rotation of the stroke id replaced by r
WithRotation(ss, id, r) ==
    [i \in 1..Len(ss) |->
        IF ss[i].id = id THEN [ss[i] EXCEPT !.rotation = r] ELSE ss[i]]

\* the pointer-up that ends a Rotating gesture made of pointer events only
RotateEnds ==
    /\ gesture.kind = "rotate"
    /\ gesture.phase = "active"
    /\ gesture.plain
    /\ gesture'.phase = "done"

\* C21: a Rotating gesture changes only the rotation field of the single
\* selected stroke: that stroke's points, position, type and id, and every
\* other stroke, are the same before and after every pointer-move and after
\* the commit, and no stroke is added, removed or moved in the list.
C21_Step ==
    /\ \A coords \in SelectPositions :
          (/\ tool = "select"
           /\ interactionState.type = "rotate"
           /\ handleMove(coords)) =>
              /\ Len(strokes') = Len(strokes)
              /\ \A i \in 1..Len(strokes) :
                     /\ [strokes'[i] EXCEPT !.rotation = 0]
                            = [strokes[i] EXCEPT !.rotation = 0]
                     /\ strokes'[i].rotation # strokes[i].rotation =>
                            selectedStrokeIds = {strokes[i].id}
    /\ RotateEnds =>
          /\ strokes' = strokes
          /\ Cardinality(selectedStrokeIds) = 1
          /\ \E r \in {strokes[i].rotation : i \in 1..Len(strokes)} :
                 strokes' = WithRotation(gesture.before,
                                         CHOOSE id \in selectedStrokeIds : TRUE, r)

C21_RotateChangesRotationOnly == [][C21_Step]_vars

\* a completed rotation by a quarter turn of one of two strokes on the board
C21_Witness ==
    /\ gesture.kind = "rotate"
    /\ gesture.phase = "done"
    /\ gesture.plain
    /\ Len(strokes) = 2
    /\ Len(gesture.before) = 2
    /\ \E i \in 1..2 :
          /\ selectedStrokeIds = {strokes[i].id}
          /\ strokes[i].rotation = gesture.before[i].rotation + 1
          /\ strokes[i].points = gesture.before[i].points
          /\ strokes[i].position = gesture.before[i].position
    /\ \E i \in 1..2 :
          /\ strokes[i].id \notin selectedStrokeIds
          /\ strokes[i] = gesture.before[i]

\* a pointer-up (or leave) step taken with a selection box in progress
BoxEnds == selectionBox # Null /\ pressed /\ ~pressed'

\* the ids of the strokes of ss of which the box with corners a and b covers
\* at least half of the unrotated bounds
CoveredIds(ss, a, b) ==
    LET box == [x |-> Min(a.x, b.x), y |-> Min(a.y, b.y),
                width |-> Abs(b.x - a.x), height |-> Abs(b.y - a.y),
                nan |-> FALSE]
    IN  {ss[i].id : i \in {j \in 1..Len(ss) :
            checkIntersection50Percent(box, getUnrotatedBounds(ss[j]))}}

\* C22: on pointer-up in SelectingBox the selection set becomes exactly the
\* ids of the strokes of the current snapshot whose unrotated bounds satisfy
\* checkIntersection50Percent against the box spanned by the start and
\* current corners, replacing any previous selection; the stroke list and
\* the history are unchanged and the selection box is discarded.
C22_Step ==
    BoxEnds =>
        /\ selectedStrokeIds' =
               CoveredIds(strokes, selectionBox.start, selectionBox.current)
        /\ history' = history
        /\ historyIndex' = historyIndex
        /\ selectionBox' = Null

C22_BoxSelects == [][C22_Step]_vars

\* the box with corners a and b contains the whole of bounds
BoxContains(a, b, bounds) ==
    /\ ~bounds.nan
    /\ Min(a.x, b.x) <= bounds.x
    /\ bounds.x + bounds.width <= Max(a.x, b.x)
    /\ Min(a.y, b.y) <= bounds.y
    /\ bounds.y + bounds.height <= Max(a.y, b.y)

\* a pointer-up of the select tool that evaluates the selection box
BoxEvaluated ==
    /\ BoxEnds
    /\ tool = "select"
    /\ interactionState.type = "idle"
    /\ ~(isDrawing /\ currentStroke # Null)

\* C23: a selection box that fully contains a stroke's unrotated bounds
\* selects that stroke, for every stroke that can be committed, strokes
\* whose bounds have zero width or zero height (a horizontal or vertical
\* arrow or line) included.
C23_Step ==
    BoxEvaluated =>
        \A i \in 1..Len(strokes) :
            BoxContains(selectionBox.start, selectionBox.current,
                        getUnrotatedBounds(strokes[i]))
                => strokes[i].id \in selectedStrokeIds'

C23_ContainedIsSelected == [][C23_Step]_vars

\* the length of the common part of the intervals [a, a + m] and [b, b + n]
Common(a, m, b, n) == Cardinality((a..(a + m - 1)) \cap (b..(b + n - 1)))

\* the area that the selection box in progress shares with bounds
SharedArea(bounds) ==
    LET left == Min(selectionBox.start.x, selectionBox.current.x)
        right == Max(selectionBox.start.x, selectionBox.current.x)
        top == Min(selectionBox.start.y, selectionBox.current.y)
        bottom == Max(selectionBox.start.y, selectionBox.current.y)
    IN  Common(left, right - left, bounds.x, bounds.width)
            * Common(top, bottom - top, bounds.y, bounds.height)

\* C24: checkIntersection50Percent(selection, strokeBox) is false whenever
\* strokeBox has zero area, and otherwise true exactly when the overlap area
\* is at least half of strokeBox's area: true at exactly 50 per cent, false
\* at 40 per cent.
C24_HalfOverlap ==
    selectionBox # Null =>
        \A i \in 1..Len(strokes) :
            LET bounds == getUnrotatedBounds(strokes[i])
                area == bounds.width * bounds.height
                shared == SharedArea(bounds)
                result == checkIntersection50Percent(
                              getSelectionBoxBounds(selectionBox), bounds)
            IN  /\ area = 0 => result = FALSE
                /\ area # 0 => (result <=> 2 * shared >= area)
                /\ (area # 0 /\ 2 * shared = area) => result = TRUE
                /\ (area # 0 /\ 5 * shared = 2 * area) => result = FALSE

\* a box that covers exactly half of the bounds of the stroke
C24_Witness ==
    /\ selectionBox # Null
    /\ Len(strokes) = 1
    /\ getUnrotatedBounds(strokes[1]).width > 0
    /\ getUnrotatedBounds(strokes[1]).height > 0
    /\ 2 * SharedArea(getUnrotatedBounds(strokes[1]))
           = getUnrotatedBounds(strokes[1]).width
                 * getUnrotatedBounds(strokes[1]).height
    /\ checkIntersection50Percent(getSelectionBoxBounds(selectionBox),
                                  getUnrotatedBounds(strokes[1]))

\* ss without the strokes that p hits within 10 pixels, in the order of ss
Unhit(ss, p) == SelectSeq(ss, LAMBDA s : ~hitTestStroke(s, p, Px(10)))

\* the pointer-up that ends an eraser gesture
EraseEnds ==
    /\ gesture.kind = "erase"
    /\ gesture.phase = "active"
    /\ gesture'.phase = "done"

\* C25: while an eraser gesture is active, after the pointer-down and after
\* each pointer-move at position p the current stroke list is the previous
\* current list without the strokes that hitTestStroke finds at p, the
\* others keeping their order; after the pointer-up the current snapshot
\* holds none of the removed strokes.
C25_Step ==
    /\ \A coords \in SelectPositions :
          /\ (/\ tool = "eraser"
              /\ ~pressed
              /\ pressed'
              /\ handleStart(coords)) =>
                 strokes' = Unhit(strokes, coords)
          /\ (/\ tool = "eraser"
              /\ gesture.kind = "erase"
              /\ gesture.phase = "active"
              /\ handleMove(coords)) =>
                 strokes' = Unhit(strokes, coords)
    /\ EraseEnds =>
          /\ Ids(strokes') \cap (Ids(gesture.before) \ Ids(strokes)) = {}
          /\ (gesture.plain /\ tool = "eraser") => strokes' = strokes

C25_EraserFilters == [][C25_Step]_vars

\* a completed eraser gesture that removed the lower of two strokes and
\* kept the upper one
C25_Witness ==
    /\ gesture.kind = "erase"
    /\ gesture.phase = "done"
    /\ gesture.plain
    /\ Len(gesture.before) = 2
    /\ strokes = <<gesture.before[2]>>

\* the one selected stroke of a pointer-down of the select tool
SelectedStroke == FindStroke(strokes, CHOOSE i \in selectedStrokeIds : TRUE)

\* the first handle of stroke, in the order rot, nw, ne, se, sw, n, s, e, w,
\* whose rotated position is at a distance below 10 / scale from p, the
\* distances taken in half-pixel units; "null" when there is none
FirstHandleNear(stroke, p, scale) ==
    LET order == <<"rot", "nw", "ne", "se", "sw", "n", "s", "e", "w">>
        position(i) == getHandleCoords(stroke)[order[i]]
        close(i) ==
            scale * scale * ((2 * p.x - position(i).x) * (2 * p.x - position(i).x)
                             + (2 * p.y - position(i).y) * (2 * p.y - position(i).y))
                < (2 * Px(10)) * (2 * Px(10))
    IN  IF \A i \in 1..9 : ~close(i) THEN "null"
        ELSE order[CHOOSE i \in 1..9 :
                       close(i) /\ \A j \in 1..(i - 1) : ~close(j)]

\* C26: hitTestHandles(stroke, p, scale) returns the first handle in the
\* order rot, nw, ne, se, sw, n, s, e, w whose rotated position is at a
\* distance strictly below 10 / scale from p, and null when no handle is
\* that close; the pointer-down of the select tool acts on its result.
C26_Step ==
    \A coords \in HitPositions :
        (/\ tool = "select"
         /\ ~pressed
         /\ pressed'
         /\ Cardinality(selectedStrokeIds) = 1
         /\ SelectedStroke # Null
         /\ handleStart(coords)) =>
            /\ \A scale \in {1, 2} :
                   hitTestHandles(SelectedStroke, coords, scale)
                       = FirstHandleNear(SelectedStroke, coords, scale)
            /\ IF FirstHandleNear(SelectedStroke, coords, 1) = "null"
               THEN interactionState'.type \notin {"resize", "rotate"}
               ELSE /\ interactionState'.type \in {"resize", "rotate"}
                    /\ interactionState'.handle
                           = FirstHandleNear(SelectedStroke, coords, 1)

C26_FirstHandleInOrder == [][C26_Step]_vars

\* a pointer-down in range of the handles n, s, e and w of an unrotated
\* stroke and of no corner, taken as the n handle
C26_Witness ==
    /\ pressed
    /\ interactionState.type = "resize"
    /\ interactionState.handle = "n"
    /\ Len(interactionState.initialStrokes) = 1
    /\ HandlesNear(interactionState.initialStrokes[1], interactionState.startPos)
           = {"n", "s", "e", "w"}

\* where the n handle of stroke was before the stroke was rotated
OldN(stroke) ==
    LET bounds == getUnrotatedBounds(stroke)
    IN  Pt(bounds.x + bounds.width \div 2, bounds.y)

\* where the e handle of stroke is after a quarter turn about the centre of
\* the bounds: below the centre by half the width
TurnedE(stroke) ==
    LET bounds == getUnrotatedBounds(stroke)
    IN  Pt(bounds.x + bounds.width \div 2,
           bounds.y + bounds.height \div 2 + bounds.width \div 2)

\* a pointer-down of the select tool at coords on the one selected stroke,
\* which is rotated by a quarter turn
TurnedStart(coords) ==
    /\ tool = "select"
    /\ ~pressed
    /\ pressed'
    /\ Cardinality(selectedStrokeIds) = 1
    /\ SelectedStroke # Null
    /\ SelectedStroke.rotation = 1
    /\ handleStart(coords)

\* C27 as stated: for any stroke rotated by a quarter turn about its bounds
\* centre, hitTestHandles at the coordinate the n handle had before the
\* rotation returns no handle, and hitTestHandles at the rotated position
\* of the e handle returns a handle.
C27_AnyStrokeStep ==
    \A coords \in HitPositions :
        TurnedStart(coords) =>
            /\ coords = OldN(SelectedStroke) =>
                   /\ hitTestHandles(SelectedStroke, coords, 1) = "null"
                   /\ interactionState'.type \notin {"resize", "rotate"}
            /\ coords = TurnedE(SelectedStroke) =>
                   /\ hitTestHandles(SelectedStroke, coords, 1) # "null"
                   /\ interactionState'.type = "resize"

C27_QuarterTurnAnyStroke == [][C27_AnyStrokeStep]_vars

\* C27, amended: for a stroke rotated by a quarter turn whose bounds are at
\* least 15 high and differ in width and height by more than 20,
\* hitTestHandles at the coordinate the n handle had before the rotation
\* returns no handle; for every stroke rotated by a quarter turn,
\* hitTestHandles at the rotated position of the e handle returns a handle.
C27_OblongStep ==
    \A coords \in HitPositions :
        TurnedStart(coords) =>
            LET bounds == getUnrotatedBounds(SelectedStroke)
            IN  /\ (/\ coords = OldN(SelectedStroke)
                    /\ bounds.height >= Px(15)
                    /\ Abs(bounds.width - bounds.height) > Px(20)) =>
                       /\ hitTestHandles(SelectedStroke, coords, 1) = "null"
                       /\ interactionState'.type \notin {"resize", "rotate"}
                /\ coords = TurnedE(SelectedStroke) =>
                       /\ hitTestHandles(SelectedStroke, coords, 1) # "null"
                       /\ interactionState'.type = "resize"

C27_QuarterTurnOblong == [][C27_OblongStep]_vars

\* a pointer-down where the n handle of a stroke 100 wide and 50 high was
\* before its quarter turn, which started a selection box
C27_Witness ==
    /\ pressed
    /\ tool = "select"
    /\ interactionState.type \notin {"resize", "rotate"}
    /\ selectionBox # Null
    /\ Len(strokes) = 1
    /\ strokes[1].rotation = 1
    /\ getUnrotatedBounds(strokes[1]).width = Px(100)
    /\ getUnrotatedBounds(strokes[1]).height = Px(50)
    /\ selectionBox.start = OldN(strokes[1])

\* p is the exact centre of bounds
AtCenter(bounds, p) ==
    /\ 2 * p.x = 2 * bounds.x + bounds.width
    /\ 2 * p.y = 2 * bounds.y + bounds.height

\* p is 2 pixels outside a border of bounds: on the rectangle that is the
\* bounds grown by 2 pixels on each side
TwoOutside(bounds, p) ==
    LET left == bounds.x - Px(2)
        right == bounds.x + bounds.width + Px(2)
        top == bounds.y - Px(2)
        bottom == bounds.y + bounds.height + Px(2)
    IN  \/ p.x \in {left, right} /\ top <= p.y /\ p.y <= bottom
        \/ p.y \in {top, bottom} /\ left <= p.x /\ p.x <= right

\* C28: for an unrotated rect stroke and threshold 10, hitTestStroke is
\* false at the exact centre of the rectangle whenever the centre is at
\* least 10 from every border line, and true at any point 2 outside a
\* border; the eraser and the select tool act on its result.
C28_Step ==
    \A coords \in HitPositions :
        (/\ ~pressed
         /\ pressed'
         /\ Len(strokes) = 1
         /\ strokes[1].type = "rect"
         /\ strokes[1].rotation = 0
         /\ handleStart(coords)) =>
            LET bounds == getUnrotatedBounds(strokes[1])
                hit == hitTestStroke(strokes[1], coords, Px(10))
            IN  /\ (/\ AtCenter(bounds, coords)
                    /\ bounds.width >= Px(20)
                    /\ bounds.height >= Px(20)) => ~hit
                /\ TwoOutside(bounds, coords) => hit
                /\ tool = "eraser" =>
                       strokes' = IF hit THEN <<>> ELSE strokes
                /\ (tool = "select" /\ NoHandleHit(coords)) =>
                       IF hit THEN interactionState'.type = "drag"
                       ELSE selectionBox' # Null

C28_HollowRect == [][C28_Step]_vars

\* a pointer-down of the select tool at the centre of an unrotated rect 20
\* wide and 40 high, which started a selection box
C28_Witness ==
    /\ pressed
    /\ tool = "select"
    /\ selectionBox # Null
    /\ Len(strokes) = 1
    /\ strokes[1].type = "rect"
    /\ strokes[1].rotation = 0
    /\ getUnrotatedBounds(strokes[1]).width = Px(20)
    /\ getUnrotatedBounds(strokes[1]).height = Px(40)
    /\ AtCenter(getUnrotatedBounds(strokes[1]), selectionBox.start)

\* what the claim says of normalizePoints for the non-empty sequence P, and
\* of the stroke new that handleEnd commits from it
NormalizedAs(P, new) ==
    LET result == normalizePoints(P)
        minX == SetMin({P[i].x : i \in 1..Len(P)})
        minY == SetMin({P[i].y : i \in 1..Len(P)})
        maxX == SetMax({P[i].x : i \in 1..Len(P)})
        maxY == SetMax({P[i].y : i \in 1..Len(P)})
    IN  /\ Len(result.points) = Len(P)
        /\ SetMin({result.points[i].x : i \in 1..Len(P)}) = 0
        /\ SetMin({result.points[i].y : i \in 1..Len(P)}) = 0
        /\ result.offset = Pt(minX, minY)
        /\ result.width = maxX - minX
        /\ result.height = maxY - minY
        /\ \A i \in 1..Len(P) :
               /\ Round(result.points[i].x + result.offset.x) = P[i].x
               /\ Round(result.points[i].y + result.offset.y) = P[i].y
        /\ new.points = result.points
        /\ new.position = result.offset

\* every difference between a coordinate of P and the minimum is a number:
\* it needs no rounding
ExactDifferences(P) ==
    LET minX == SetMin({P[i].x : i \in 1..Len(P)})
        minY == SetMin({P[i].y : i \in 1..Len(P)})
    IN  \A i \in 1..Len(P) :
            /\ Round(P[i].x - minX) = P[i].x - minX
            /\ Round(P[i].y - minY) = P[i].y - minY

\* normalizePoints of the empty sequence
NormalizedEmpty ==
    normalizePoints(<<>>)
        = [points |-> <<>>, offset |-> Pt(0, 0), width |-> 0, height |-> 0]

\* C29 as stated: for every non-empty point sequence P, normalizePoints(P)
\* returns points whose minimum x and y are 0, offset equal to the minimum x
\* and y of P, width and height equal to the extents of P, and adding the
\* offset back to each returned point reproduces P exactly, in order; for
\* the empty sequence it returns empty points with zero offset and size.
C29_AnyPointsStep ==
    DrawEnds =>
        /\ NormalizedAs(currentStroke.points, strokes'[Len(strokes')])
        /\ NormalizedEmpty

C29_ExactPointsStep ==
    DrawEnds =>
        /\ ExactDifferences(currentStroke.points) =>
               NormalizedAs(currentStroke.points, strokes'[Len(strokes')])
        /\ NormalizedEmpty

IdsAndTypes(ss) == [i \in 1..Len(ss) |-> <<ss[i].id, ss[i].type>>]

\* a pointer-move or the pointer-up of a Dragging, Resizing or Rotating
\* gesture in progress
TransformStep ==
    /\ gesture.kind \in {"drag", "resize", "rotate"}
    /\ gesture.phase = "active"
    /\ events' = events

\* C30: no drag, resize or rotate gesture adds, removes or reorders
\* strokes, and no operation changes the id or the type of a stroke that is
\* in the stroke list: a stroke that is in the list before and after a step
\* has the same type.
C30_Step ==
    /\ TransformStep => IdsAndTypes(strokes') = IdsAndTypes(strokes)
    /\ \A i \in 1..Len(strokes) : \A j \in 1..Len(strokes') :
           strokes[i].id = strokes'[j].id =>
               strokes[i].type = strokes'[j].type

C30_StrokesKeepIdAndType == [][C30_Step]_vars

\* a completed resize gesture that changed a stroke on a board of two
C30_Witness ==
    /\ gesture.kind = "resize"
    /\ gesture.phase = "done"
    /\ gesture.plain
    /\ Len(strokes) = 2
    /\ strokes # gesture.before
    /\ IdsAndTypes(strokes) = IdsAndTypes(gesture.before)

\* every rect and every circle of every stored snapshot has two points
ShapesHaveTwoPoints(h) ==
    \A n \in 1..Len(h) : \A i \in 1..Len(h[n]) :
        h[n][i].type \in {"rect", "circle"} => Len(h[n][i].points) = 2

\* C31: in every snapshot reachable by drawing, resize, drag, rotate, erase,
\* undo and redo, every rect and every circle stroke has exactly two points,
\* and a shape in progress never has more than two points.
C31_ShapesTwoPoints ==
    /\ ShapesHaveTwoPoints(history)
    /\ (currentStroke # Null /\ currentStroke.type # "freehand") =>
           Len(currentStroke.points) <= 2

\* a circle or a rect that a drawing gesture has just committed on top of
\* the two strokes of the board, drawn with two pointer positions
C31_Witness ==
    /\ gesture.kind = "draw"
    /\ gesture.phase = "done"
    /\ gesture.committed
    /\ Len(strokes) = 3
    /\ strokes[3].type \in {"rect", "circle"}
    /\ strokes[3].points[1] # strokes[3].points[2]

\* a pointer-move at coords that takes a branch of handleMove and changes
\* the history, the index, the selection set or the interaction state can
\* be taken
MoveChanges(coords) ==
    ENABLED (/\ handleMove(coords)
             /\ <<history, historyIndex, selectedStrokeIds, interactionState>>'
                    # <<history, historyIndex, selectedStrokeIds, interactionState>>)

\* C32: a pointer-move while the controller is Idle with tool = select
\* changes only the cursor: the stroke list, the history (length, index,
\* snapshots), the selection set and the interaction state are unchanged.
C32_HoverChangesNothing ==
    (Idle /\ tool = "select") =>
        /\ ENABLED MoveNone
        /\ \A coords \in SelectPositions : ~MoveChanges(coords)

\* the select tool hovering over a board of two strokes, one of them
\* selected, after a drag has ended
C32_Witness ==
    /\ Idle
    /\ tool = "select"
    /\ ~pressed
    /\ gesture.kind = "drag"
    /\ gesture.phase = "done"
    /\ Len(strokes) = 2
    /\ Cardinality(selectedStrokeIds) = 1
    /\ ENABLED MoveNone

\* C33: no pointer-move, in any interaction state, changes the history
\* length or the current index: a preview during a gesture only replaces
\* the snapshot stored at the current index.
\* (a step that leaves history and index as they are satisfies the claim
\* whatever event it is, so only the other steps are matched with the
\* pointer-move)
C33_Step ==
    \A coords \in SelectPositions :
        (/\ pressed' = pressed
         /\ tool' = tool
         /\ isDrawing' = isDrawing
         /\ history' # history \/ historyIndex' # historyIndex
         /\ handleMove(coords)) =>
            /\ Len(history') = Len(history)
            /\ historyIndex' = historyIndex
            /\ \A n \in 1..Len(history) :
                   n # historyIndex + 1 => history'[n] = history[n]

C33_MovesKeepHistoryShape == [][C33_Step]_vars

\* a drag in progress whose preview has replaced the current snapshot of a
\* history of three, with the other snapshots behind it
C33_Witness ==
    /\ gesture.kind = "drag"
    /\ gesture.phase = "active"
    /\ interactionState.type = "drag"
    /\ strokes # gesture.before
    /\ Len(history) = gesture.beforeLen
    /\ historyIndex = gesture.beforeIdx
    /\ historyIndex > 0

\* the strokes of ss whose id is not in ids, in the order of ss
Without(ss, ids) ==
    LET keep == {i \in 1..Len(ss) : ss[i].id \notin ids}
        RECURSIVE upTo(_)
        upTo(n) == IF n = 0 THEN <<>>
                   ELSE IF n \in keep THEN Append(upTo(n - 1), ss[n])
                   ELSE upTo(n - 1)
    IN  upTo(Len(ss))

\* C34: deleteSelected with an empty selection changes nothing; with a
\* non-empty selection it pushes exactly one snapshot equal to the current
\* stroke list without the selected strokes (the others unchanged, in
\* order), empties the selection, and one undo afterwards restores the
\* deleted strokes.
C34_Step ==
    /\ selectedStrokeIds = {} => ~ENABLED DeleteSelected
    /\ DeleteSelected =>
          LET kept == SubSeq(history, 1, historyIndex + 1)
              full == Append(kept, Without(strokes, selectedStrokeIds))
          IN  /\ history' = IF Len(full) > 50 THEN Tail(full) ELSE full
              /\ historyIndex' = Len(history') - 1
              /\ strokes' = Without(strokes, selectedStrokeIds)
              /\ selectedStrokeIds' = {}
              /\ canUndo(history', historyIndex')
              /\ strokesOf(undo(history', historyIndex').history,
                           undo(history', historyIndex').historyIndex) = strokes

C34_DeleteSelected == [][C34_Step]_vars

\* the board after the delete of one of its two strokes, the first thing
\* done on it: the pointer is up, so that undo is available
C34_Witness ==
    /\ events = 3
    /\ tool = "select"
    /\ ~pressed
    /\ Len(history) = 4
    /\ historyIndex = 3
    /\ Len(history[3]) = 2
    /\ Len(strokes) = 1
    /\ strokes[1] \in {history[3][1], history[3][2]}
    /\ selectedStrokeIds = {}
    /\ ENABLED Undo

\* C35: a complete select-tool or eraser gesture that leaves the current
\* stroke list equal to what it was at pointer-down (a click that only
\* selects, a drag with zero total displacement, an eraser pass that hits
\* nothing) leaves the history length and the index unchanged, so that an
\* existing redo branch is kept.
C35_NoOpGestureKeepsHistory ==
    (/\ gesture.kind \in {"drag", "resize", "rotate", "erase", "box"}
     /\ gesture.plain
     /\ gesture.phase = "done"
     /\ gesture.after = gesture.before) =>
        /\ Len(history) = gesture.beforeLen
        /\ historyIndex = gesture.beforeIdx

\* C36: between a pointer-up and the next pointer-down no pointer-move
\* changes the stroke list, the history or the selection set, whatever tool
\* changes happened before, during or after the preceding gesture.
C36_Step ==
    \A coords \in SelectPositions :
        (~pressed /\ ~pressed' /\ handleMove(coords)) =>
            /\ history' = history
            /\ historyIndex' = historyIndex
            /\ selectedStrokeIds' = selectedStrokeIds

C36_MovesWithButtonUp == [][C36_Step]_vars

\* C37: during Resizing of an unrotated rect or circle the edge opposite to
\* the dragged handle stays fixed for every pointer displacement, clamped
\* ones included: with handle w, nw or sw the right edge x + width is
\* unchanged, with handle n, nw or ne the bottom edge y + height is
\* unchanged.
C37_Step ==
    \A coords \in ResizePositions :
        (/\ ResizeMove(coords)
         /\ ResizeInitial.type \in {"rect", "circle"}
         /\ ResizeInitial.rotation = 0) =>
            LET bounds == getUnrotatedBounds(ResizeInitial)
                after == getUnrotatedBounds(ResizeResult)
            IN  /\ interactionState.handle \in {"w", "nw", "sw"} =>
                       after.x + after.width = bounds.x + bounds.width
                /\ interactionState.handle \in {"n", "nw", "ne"} =>
                       after.y + after.height = bounds.y + bounds.height

C37_OppositeEdgeFixed == [][C37_Step]_vars

\* C38: resizing an arrow never divides by zero: for every committed arrow,
\* one with bounds of zero width or zero height included, every resize
\* preview produces points with well-defined finite coordinates.
C38_Step ==
    \A coords \in ResizePositions :
        (/\ ResizeMove(coords)
         /\ ResizeInitial.type = "arrow") =>
            /\ Len(ResizeResult.points) = Len(ResizeInitial.points)
            /\ ~HasNaN(ResizeResult.points)

C38_ArrowResizeFinite == [][C38_Step]_vars

\* the canvas position of the i-th recorded point of stroke
CanvasPoint(stroke, i) ==
    Pt(stroke.position.x + stroke.points[i].x,
       stroke.position.y + stroke.points[i].y)

\* C39: every freehand stroke that a drawing gesture commits can be hit
\* afterwards: hitTestStroke is true at the canvas position of each of its
\* recorded points, a stroke committed with a single point included.
C39_CommittedFreehandHit ==
    (/\ gesture.kind = "draw"
     /\ gesture.phase = "done"
     /\ gesture.committed
     /\ strokes = gesture.after
     /\ strokes # <<>>
     /\ strokes[Len(strokes)].type = "freehand") =>
        LET new == strokes[Len(strokes)]
        IN  \A i \in 1..Len(new.points) :
                hitTestStroke(new, CanvasPoint(new, i), Px(HitThreshold))

====
